---- MODULE Spec2Model ----
(***************************************************************************)
(* Snapshot store, reconciler and canonical hash of kubitor.               *)
(*                                                                         *)
(*   src/src/database/service.py     ScanDAO, ResourceDAO, ChangeDAO,      *)
(*                                   DatabaseService                       *)
(*   src/src/database/connection.py  AsyncDatabaseConnection               *)
(*   src/src/model/kubernetes.py     K8sResource                           *)
(*   src/src/core/history.py         HistoricalAnalyzer                    *)
(*   src/src/model/repository/historical_repository.py                     *)
(*                                   HistoricalRepository                  *)
(*   src/src/api/analysis_service.py AnalysisService                       *)
(*   src/src/k8s/scanner.py          ResourceScanner                       *)
(*                                                                         *)
(* The specifications share the variables:                                 *)
(*   SpecHash     _calculate_resource_hash applied to two documents        *)
(*   Spec         store_scan and detect_changes over two scans             *)
(*   SpecHistory  store_scan, detect_changes(new), analyze_drift and       *)
(*                cleanup_old_scans over three scans and a moving clock    *)
(*   SpecTwice    detect_changes called again on a pair it compared        *)
(*   SpecConn     transaction(), bulk_insert and insert_returning_id of    *)
(*                AsyncDatabaseConnection, called by one caller            *)
(*   SpecTasks    store_scan and cleanup_old_scans called by two asyncio   *)
(*                tasks on one AsyncDatabaseConnection                     *)
(*   SpecDrift    get_drift_analysis over three scans                      *)
(*   SpecFew      analyze_drift and get_drift_analysis over two scans      *)
(*   SpecTimeline get_resource_timeline over three scans                   *)
(*   SpecScore    _calculate_stability_score                               *)
(*   SpecHealth   get_cluster_health_report of AnalysisService             *)
(*   SpecStatus   determine_health_status                                  *)
(*   SpecRecs     _generate_recommendations                                *)
(*   SpecBatch    store_scan on batches with nameless documents            *)
(*   SpecRecent   get_recent_scans and get_scans_in_range                  *)
(*   SpecUnstable get_drift_analysis and its most unstable resources       *)
(*   SpecSwap     detect_changes and compare_scans with swapped arguments  *)
(***************************************************************************)
EXTENDS Integers, Sequences, FiniteSets, TLC

VARIABLES
    docA, docB,      \* SpecHash: the two documents handed to the hash
    hashA, hashB,    \* SpecHash: their digests ("" before the call)
    dialect,         \* AsyncDatabaseConnection.dialect
    disk,            \* the committed tables and id generators
    txs,             \* open engine transactions, innermost last: pending writes
    in_transaction,  \* AsyncDatabaseConnection._in_transaction
    now,             \* the clock
    ret,             \* the last call: its arguments and what it returned
    memo,            \* SpecTwice: the pair compared first; the inputs of a pure call
    blocks,          \* SpecConn: the transaction() blocks the caller is in
    tasks,           \* SpecTasks: where each asyncio task stands in its call
    tx_conn,         \* SpecTasks: AsyncDatabaseConnection._tx_conn
    conns,           \* SpecTasks: the engine connections and their transactions
    issued           \* SpecTasks: the scan ids given out, in the order of the inserts

vars == <<docA, docB, hashA, hashB, dialect, disk, txs, in_transaction,
          now, ret, memo, blocks, tasks, tx_conn, conns, issued>>

taskVars == <<tasks, tx_conn, conns, issued>>

hashVars == <<docA, docB, hashA, hashB>>
connVars == <<dialect, disk, txs, in_transaction>>

NULL == "NULL"   \* Python None / SQL NULL, where a string may stand
NoId == 0        \* Python None / SQL NULL, where a scan id may stand
NoRow == [id |-> NoId]   \* fetch_one finding no row

(***************************************************************************)
(* Documents.  A Python dict is a sequence of <<key, value>> pairs with    *)
(* distinct keys, in insertion order; a value is a tagged record.          *)
(***************************************************************************)
Str(x)  == [tag |-> "str",  s |-> x,  d |-> <<>>]
Raw(x)  == [tag |-> "raw",  s |-> x,  d |-> <<>>]   \* a number or list, by its JSON text
None    == [tag |-> "null", s |-> "", d |-> <<>>]
Dict(p) == [tag |-> "dict", s |-> "", d |-> p]

Keys(d)    == {d[i][1] : i \in 1..Len(d)}
Has(d, k)  == k \in Keys(d)
Get(d, k)  == d[CHOOSE i \in 1..Len(d) : d[i][1] = k][2]
Pop(d, k)  == SelectSeq(d, LAMBDA p : p[1] # k)
Put(d, k, v) ==
    IF Has(d, k)
    THEN [i \in 1..Len(d) |-> IF d[i][1] = k THEN <<k, v>> ELSE d[i]]
    ELSE Append(d, <<k, v>>)

\* The keys the model uses, in the order Python's sorted() gives them.
KeyOrder ==
    << "api_version", "creationTimestamp", "data", "generation", "image",
       "kind", "labels", "managedFields", "metadata", "name", "namespace",
       "phase", "resourceVersion", "spec", "status" >>

SortedItems(d) ==
    LET F[i \in 0..Len(KeyOrder)] ==
            IF i = 0 THEN <<>>
            ELSE F[i - 1] \o SelectSeq(d, LAMBDA p : p[1] = KeyOrder[i])
    IN  F[Len(KeyOrder)]

RECURSIVE JsonDumps(_, _)
JsonItems(items, sort_keys) ==
    LET F[i \in 0..Len(items)] ==
            IF i = 0 THEN ""
            ELSE F[i - 1] \o (IF i = 1 THEN "" ELSE ", ")
                 \o "\"" \o items[i][1] \o "\": "
                 \o JsonDumps(items[i][2], sort_keys)
    IN  F[Len(items)]

\* json.dumps(v, sort_keys=...) with the default separators.
JsonDumps(v, sort_keys) ==
    CASE v.tag = "str"  -> "\"" \o v.s \o "\""
      [] v.tag = "raw"  -> v.s
      [] v.tag = "null" -> "null"
      [] v.tag = "dict" ->
            "{" \o JsonItems(IF sort_keys THEN SortedItems(v.d) ELSE v.d, sort_keys)
                \o "}"

\* hashlib.sha256(...).hexdigest(): the digest stands for its preimage
\* (SHA-256 is taken to be collision free).
Sha256Hex(text) == "sha256:" \o text

VolatileMetadata ==
    <<"resourceVersion", "generation", "managedFields", "creationTimestamp">>

PopAll(d, ks) ==
    LET F[i \in 0..Len(ks)] == IF i = 0 THEN d ELSE Pop(F[i - 1], ks[i])
    IN  F[Len(ks)]

KeepsGeneration(resource_data) ==
    LET filtered ==
            IF Has(resource_data, "metadata")
            THEN Put(resource_data, "metadata",
                     Dict(PopAll(Get(resource_data, "metadata").d,
                                 <<"resourceVersion", "managedFields",
                                   "creationTimestamp">>)))
            ELSE resource_data
    IN  Sha256Hex(JsonDumps(Dict(Pop(filtered, "status")), TRUE))

\* DatabaseService._calculate_resource_hash
CalculateResourceHash(resource_data) ==
    LET filtered ==
            IF Has(resource_data, "metadata")
            THEN Put(resource_data, "metadata",
                     Dict(PopAll(Get(resource_data, "metadata").d,
                                 VolatileMetadata)))
            ELSE resource_data
    IN  Sha256Hex(JsonDumps(Dict(Pop(filtered, "status")), TRUE))

(***************************************************************************)
(* The connection.  c = [dialect, disk, txs, in_transaction] is the state  *)
(* of one AsyncDatabaseConnection and of the engine behind it.  disk holds *)
(* the committed rows and the id generators; txs holds the pending writes  *)
(* of each open engine transaction, innermost last (SQLite has one         *)
(* connection, so at most one; PostgreSQL one per acquired connection).    *)
(* Every operation returns [c, raised, value].                             *)
(***************************************************************************)
Max(S) == CHOOSE x \in S : \A y \in S : y <= x

Ids(rows) == {rows[i].id : i \in 1..Len(rows)}

RowsOf(pending, table) ==
    LET w == SelectSeq(pending, LAMBDA x : x.table = table)
    IN  [i \in 1..Len(w) |-> w[i].row]

\* the rows a statement sees: the committed ones and the pending ones of the
\* connection it runs on (self._conn, or self._tx_conn or self._pool)
Fetch(c, table) ==
    IF c.txs = <<>> THEN c.disk[table]
    ELSE c.disk[table] \o RowsOf(c.txs[Len(c.txs)], table)

ApplyPending(d, pending) ==
    LET F[i \in 0..Len(pending)] ==
            IF i = 0 THEN d
            ELSE LET w == pending[i]
                 IN  [F[i - 1] EXCEPT ![w.table] = Append(@, w.row),
                                      !.seq[w.table] = Max({@, w.row.id})]
    IN  F[Len(pending)]

\* COMMIT on the connection of the innermost open transaction
Commit(c) ==
    [c EXCEPT !.disk = ApplyPending(c.disk, c.txs[Len(c.txs)]),
              !.txs = SubSeq(c.txs, 1, Len(c.txs) - 1)]

\* ROLLBACK on the connection of the innermost open transaction
Rollback(c) == [c EXCEPT !.txs = SubSeq(c.txs, 1, Len(c.txs) - 1)]

\* the id the engine gives the next row: AUTOINCREMENT reads sqlite_sequence
\* inside the transaction, SERIAL draws from a sequence outside it
NextId(c, table) ==
    IF c.dialect = "sqlite"
    THEN Max({c.disk.seq[table]}
             \cup UNION {Ids(RowsOf(c.txs[i], table)) : i \in 1..Len(c.txs)}) + 1
    ELSE c.disk.seq[table] + 1

\* FOREIGN KEY ... REFERENCES scan_records (id): enforced by PostgreSQL; SQLite
\* enforces it only under PRAGMA foreign_keys = ON, which connect() never issues
ForeignKeysHold(c, table, data) ==
    LET scans == Ids(Fetch(c, "scan_records"))
    IN  \/ c.dialect = "sqlite"
        \/ table = "scan_records"
        \/ table = "resource_records" /\ data.scan_id \in scans
        \/ /\ table = "resource_changes"
           /\ data.old_scan_id \in scans \cup {NoId}
           /\ data.new_scan_id \in scans \cup {NoId}

\* AsyncDatabaseConnection.insert_returning_id; fail: the engine refuses the row
InsertReturningId(c, table, data, fail) ==
    LET id  == NextId(c, table)
        w   == [table |-> table, row |-> [id |-> id] @@ data]
        bad == fail \/ ~ForeignKeysHold(c, table, data)
    IN  IF c.dialect = "sqlite"
        THEN \* sqlite3 opens a transaction before an INSERT when none is open
             LET opened == IF c.txs = <<>> THEN << <<>> >> ELSE c.txs
                 done   == [c EXCEPT !.txs = [opened EXCEPT ![Len(opened)] = Append(@, w)]]
             IN  IF bad
                 THEN [c |-> [c EXCEPT !.txs = opened], raised |-> TRUE, value |-> NoId]
                 ELSE [c |-> IF c.in_transaction = 0 THEN Commit(done) ELSE done,
                       raised |-> FALSE, value |-> id]
        ELSE LET drawn == [c EXCEPT !.disk.seq[table] = id]
             IN  IF bad
                 THEN [c |-> drawn, raised |-> TRUE, value |-> NoId]
                 ELSE [c |-> IF c.txs = <<>>
                             THEN [drawn EXCEPT !.disk[table] = Append(@, w.row)]
                             ELSE [drawn EXCEPT !.txs[Len(c.txs)] = Append(@, w)],
                       raised |-> FALSE, value |-> id]

\* entering "async with transaction()": BEGIN, then _in_transaction += 1.
\* SQLite refuses BEGIN inside an open transaction; PostgreSQL begins on a
\* connection newly acquired from the pool, which becomes _tx_conn.
TransactionEnter(c) ==
    IF c.dialect = "sqlite" /\ c.txs # <<>>
    THEN [c |-> c, raised |-> TRUE, value |-> NoId]
    ELSE [c |-> [c EXCEPT !.txs = Append(@, <<>>),
                          !.in_transaction = @ + 1],
          raised |-> FALSE, value |-> NoId]

\* leaving "async with transaction()": commit, or rollback on an exception,
\* and _in_transaction -= 1 either way
TransactionExit(c, failed) ==
    [(IF failed THEN Rollback(c) ELSE Commit(c)) EXCEPT !.in_transaction = @ - 1]

\* the loop of bulk_insert from record i on; failAt = 0: the engine refuses none
RECURSIVE InsertFrom(_, _, _, _, _)
InsertFrom(c, table, records, i, failAt) ==
    IF i > Len(records)
    THEN [c |-> c, raised |-> FALSE, value |-> Len(records)]
    ELSE LET r == InsertReturningId(c, table, records[i], i = failAt)
         IN  IF r.raised THEN r
             ELSE InsertFrom(r.c, table, records, i + 1, failAt)

\* AsyncDatabaseConnection.bulk_insert
BulkInsert(c, table, records, failAt) ==
    IF records = <<>>
    THEN [c |-> c, raised |-> FALSE, value |-> 0]
    ELSE LET b == TransactionEnter(c)
         IN  IF b.raised THEN b
             ELSE LET r == InsertFrom(b.c, table, records, 1, failAt)
                  IN  [c |-> TransactionExit(r.c, r.raised),
                       raised |-> r.raised, value |-> r.value]

(***************************************************************************)
(* K8sResource and the DAOs.                                               *)
(***************************************************************************)
\* K8sResource.model_dump(): the fields in declaration order
ModelDump(r) ==
    << <<"api_version", Str(r.api_version)>>, <<"kind", Str(r.kind)>>,
       <<"metadata", Dict(r.metadata)>>, <<"spec", r.spec>>,
       <<"status", r.status>>, <<"data", r.data>> >>

\* K8sResource.name: metadata.get("name", "")
NameOf(r) == IF Has(r.metadata, "name") THEN Get(r.metadata, "name").s ELSE ""

\* K8sResource.namespace: metadata.get("namespace")
NamespaceOf(r) ==
    IF Has(r.metadata, "namespace") THEN Get(r.metadata, "namespace").s ELSE NULL

Resource(kind, namespace, name, image, resourceVersion) ==
    [api_version |-> "v1", kind |-> kind,
     metadata |->
        << <<"name", Str(name)>> >>
        \o (IF namespace = NULL THEN <<>> ELSE << <<"namespace", Str(namespace)>> >>)
        \o << <<"resourceVersion", Str(resourceVersion)>> >>,
     spec |-> Dict(<< <<"image", Str(image)>> >>),
     status |-> Dict(<< <<"phase", Str("Running")>> >>),
     data |-> None]

\* the resources a scan may hold, in the order the scanner lists them
ResourcePool ==
    << Resource("Pod", "default", "a", "nginx", "1"),
       Resource("Pod", "default", "a", "nginx", "999"),
       Resource("Pod", "default", "a", "apache", "1"),
       Resource("Pod", "default", "b", "nginx", "1"),
       Resource("Namespace", NULL, "a", "nginx", "1"),
       Resource("Namespace", "", "a", "nginx", "1") >>

\* INSERT OR REPLACE: the new header takes the place of the stored ones
ReplacesHeader(c, total_resources, clock) ==
    LET r == InsertReturningId(c, "scan_records",
                               [timestamp |-> clock,
                                total_resources |-> total_resources],
                               FALSE)
    IN  [r EXCEPT !.c.disk.scan_records = SelectSeq(@, LAMBDA s : s.id = r.value)]

\* ScanDAO.create; timestamp is the column's DEFAULT CURRENT_TIMESTAMP
ScanCreate(c, total_resources, clock) ==
    InsertReturningId(c, "scan_records",
                      [timestamp |-> clock, total_resources |-> total_resources],
                      FALSE)

SmallestFirst(c, scan_id) ==
    LET older == SelectSeq(Fetch(c, "scan_records"), LAMBDA s : s.id < scan_id)
    IN  IF older = <<>> THEN NoRow
        ELSE CHOOSE s \in {older[i] : i \in 1..Len(older)} :
                 \A i \in 1..Len(older) : older[i].id >= s.id

\* ScanDAO.get_previous: WHERE id < :id ORDER BY id DESC LIMIT 1
GetPrevious(c, scan_id) ==
    LET older == SelectSeq(Fetch(c, "scan_records"), LAMBDA s : s.id < scan_id)
    IN  IF older = <<>> THEN NoRow
        ELSE CHOOSE s \in {older[i] : i \in 1..Len(older)} :
                 \A i \in 1..Len(older) : older[i].id <= s.id

ThatScanAndLater(c, scan_id) ==
    SelectSeq(Fetch(c, "resource_records"), LAMBDA r : r.scan_id >= scan_id)

\* ResourceDAO.get_by_scan
GetByScan(c, scan_id) ==
    SelectSeq(Fetch(c, "resource_records"), LAMBDA r : r.scan_id = scan_id)

\* ScanDAO.cleanup_old: DELETE FROM scan_records WHERE timestamp < :cutoff,
\* through execute(), which commits.  ON DELETE CASCADE removes the dependent
\* rows where the engine enforces foreign keys.
CleanupOld(c, cutoff) ==
    LET scans == c.disk.scan_records
        gone  == {scans[i].id : i \in {j \in 1..Len(scans) : scans[j].timestamp < cutoff}}
        kept  == [c.disk EXCEPT
                    !.scan_records = SelectSeq(@, LAMBDA s : s.id \notin gone)]
        cascaded ==
            [kept EXCEPT
               !.resource_records = SelectSeq(@, LAMBDA r : r.scan_id \notin gone),
               !.resource_changes =
                   SelectSeq(@, LAMBDA x : /\ x.old_scan_id \notin gone
                                           /\ x.new_scan_id \notin gone)]
    IN  [c |-> [c EXCEPT !.disk = IF c.dialect = "sqlite" THEN kept ELSE cascaded],
         raised |-> FALSE, value |-> Cardinality(gone)]

(***************************************************************************)
(* DatabaseService                                                         *)
(***************************************************************************)
\* the record store_scan builds for one resource
ResourceRecord(scan_id, r) ==
    [scan_id |-> scan_id, api_version |-> r.api_version, kind |-> r.kind,
     namespace |-> NamespaceOf(r), name |-> NameOf(r),
     resource_data |-> JsonDumps(Dict(ModelDump(r)), FALSE),
     resource_hash |-> CalculateResourceHash(ModelDump(r))]

\* ResourceRecord of each resource of the pool, computed once
PoolRecord == [r \in {ResourcePool[i] : i \in 1..Len(ResourcePool)} |->
                  ResourceRecord(NoId, r)]

RecordOf(r) ==
    IF \E i \in 1..Len(ResourcePool) : ResourcePool[i] = r
    THEN PoolRecord[r] ELSE ResourceRecord(NoId, r)

\* DatabaseService.store_scan; failAt: the resource row the engine refuses
StoreScan(c, resources, clock, failAt) ==
    LET h == ScanCreate(c, Len(resources), clock)
        resource_records ==
            [i \in 1..Len(resources) |->
                [RecordOf(resources[i]) EXCEPT !.scan_id = h.value]]
        b == BulkInsert(h.c, "resource_records", resource_records, failAt)
    IN  [c |-> b.c, raised |-> b.raised,
         value |-> IF b.raised THEN NoId ELSE h.value]

\* key() of detect_changes: "<api_version>/<kind>/<namespace or ''>/<name>"
KeyOf(res) ==
    res.api_version \o "/" \o res.kind \o "/"
        \o (IF res.namespace \in {NULL, ""} THEN "" ELSE res.namespace)
        \o "/" \o res.name

\* {key(r): r for r in rows}
KeyMap(rows) ==
    LET F[i \in 0..Len(rows)] ==
            IF i = 0 THEN <<>> ELSE Put(F[i - 1], KeyOf(rows[i]), rows[i])
    IN  F[Len(rows)]

WholeRowDiffers(cur, prev) == cur # prev

\* cur.get("resource_hash") != prev.get("resource_hash")
HashDiffers(cur, prev) == cur.resource_hash # prev.resource_hash

ChangeData(res, change_type, old_scan_id, new_scan_id) ==
    [kind |-> res.kind, namespace |-> res.namespace, name |-> res.name,
     change_type |-> change_type,
     old_scan_id |-> old_scan_id, new_scan_id |-> new_scan_id]

\* the keys of the third loop; Python iterates the set in no fixed order
UpdatedKeys(current_map, previous_map) ==
    {k \in Keys(current_map) \cap Keys(previous_map) :
        HashDiffers(Get(current_map, k), Get(previous_map, k))}

Orders(S) == {o \in [1..Cardinality(S) -> S] : \A k \in S : \E i \in DOMAIN o : o[i] = k}

\* the diff without its second loop: no resource is reported as deleted
ReconcileWithoutDeleted(c, new_scan_id, old_scan_id, order) ==
    LET current_map  == KeyMap(GetByScan(c, new_scan_id))
        previous_map == KeyMap(GetByScan(c, old_scan_id))
        created == SelectSeq(current_map, LAMBDA p : ~Has(previous_map, p[1]))
        plan ==
            [i \in 1..Len(created) |->
                ChangeData(created[i][2], "created", old_scan_id, new_scan_id)]
            \o [i \in 1..Len(order) |->
                ChangeData(Get(current_map, order[i]), "updated",
                           old_scan_id, new_scan_id)]
        before == Len(Fetch(c, "resource_changes"))
        w == InsertFrom(c, "resource_changes", plan, 1, 0)
        after == Fetch(w.c, "resource_changes")
    IN  [c |-> w.c, raised |-> w.raised, baseline |-> old_scan_id,
         value |-> IF w.raised THEN <<>> ELSE SubSeq(after, before + 1, Len(after))]

\* DatabaseService.detect_changes from line 204 on; order: the order in which
\* the third loop meets the updated keys
Reconcile(c, new_scan_id, old_scan_id, order) ==
    LET current_map  == KeyMap(GetByScan(c, new_scan_id))
        previous_map == KeyMap(GetByScan(c, old_scan_id))
        created == SelectSeq(current_map, LAMBDA p : ~Has(previous_map, p[1]))
        deleted == SelectSeq(previous_map, LAMBDA p : ~Has(current_map, p[1]))
        plan ==
            [i \in 1..Len(created) |->
                ChangeData(created[i][2], "created", old_scan_id, new_scan_id)]
            \o [i \in 1..Len(deleted) |->
                ChangeData(deleted[i][2], "deleted", old_scan_id, new_scan_id)]
            \o [i \in 1..Len(order) |->
                ChangeData(Get(current_map, order[i]), "updated",
                           old_scan_id, new_scan_id)]
        before == Len(Fetch(c, "resource_changes"))
        w == InsertFrom(c, "resource_changes", plan, 1, 0)
        after == Fetch(w.c, "resource_changes")
    IN  [c |-> w.c, raised |-> w.raised, baseline |-> old_scan_id,
         value |-> IF w.raised THEN <<>> ELSE SubSeq(after, before + 1, Len(after))]

\* DatabaseService.detect_changes; old_scan_id = NoId: the argument is omitted
DetectChanges(c, new_scan_id, old_scan_id, order) ==
    LET previous == GetPrevious(c, new_scan_id)
    IN  IF old_scan_id = NoId /\ previous = NoRow
        THEN [c |-> c, raised |-> FALSE, baseline |-> NoId, value |-> <<>>]
        ELSE Reconcile(c, new_scan_id,
                       IF old_scan_id = NoId THEN previous.id ELSE old_scan_id,
                       order)

\* the orders the third loop of detect_changes(new, old) may take
UpdateOrders(c, new_scan_id, old_scan_id) ==
    LET previous == GetPrevious(c, new_scan_id)
        old == IF old_scan_id = NoId
               THEN (IF previous = NoRow THEN NoId ELSE previous.id)
               ELSE old_scan_id
    IN  IF old = NoId THEN {<<>>}
        ELSE Orders(UpdatedKeys(KeyMap(GetByScan(c, new_scan_id)),
                                KeyMap(GetByScan(c, old))))

\* DatabaseService.cleanup_old_scans
CleanupOldScans(c, clock, keep_days) == CleanupOld(c, clock - keep_days)

(***************************************************************************)
(* HistoricalAnalyzer over DatabaseService, and HistoricalRepository over  *)
(* the DAOs of model/dao.  A Python dict is a record: a key the code       *)
(* leaves out is a field the record lacks.                                 *)
(***************************************************************************)
\* the rows in every order
Arrangements(rows) ==
    { [i \in 1..Len(rows) |-> rows[p[i]]] : p \in Orders(1..Len(rows)) }

\* ORDER BY timestamp DESC: rows of equal timestamp come in an order the
\* engine chooses
NewestFirst(rows) ==
    { s \in Arrangements(rows) :
        \A i \in 1..(Len(s) - 1) : s[i].timestamp >= s[i + 1].timestamp }

\* ScanDAO.get_in_range with no context, DatabaseService.get_scans_in_range
GetInRange(c, start, end) ==
    NewestFirst(SelectSeq(Fetch(c, "scan_records"),
                          LAMBDA s : start <= s.timestamp /\ s.timestamp <= end))

\* ScanDAO.get_recent, DatabaseService.get_recent_scans: LIMIT after the
\* ORDER BY
GetRecent(c, limit) ==
    { SubSeq(s, 1, IF limit < Len(s) THEN limit ELSE Len(s)) :
        s \in NewestFirst(Fetch(c, "scan_records")) }

\* ResourceDAO.history, DatabaseService.get_resource_history: the rows of
\* the resource joined with their scans, newest first, at most limit of them
History(c, kind, name, namespace, limit) ==
    LET scans  == Fetch(c, "scan_records")
        at(id) == (CHOOSE i \in 1..Len(scans) : scans[i].id = id)
        rows   == SelectSeq(Fetch(c, "resource_records"),
                            LAMBDA r : /\ r.kind = kind /\ r.name = name
                                       /\ r.namespace = namespace
                                       /\ r.scan_id \in Ids(scans))
        joined == [i \in 1..Len(rows) |->
                      rows[i] @@ [timestamp |-> scans[at(rows[i].scan_id)].timestamp]]
    IN  { SubSeq(s, 1, IF limit < Len(s) THEN limit ELSE Len(s)) :
            s \in NewestFirst(joined) }

\* HistoricalAnalyzer.get_resource_timeline from the history it has read
GetResourceTimeline(history) ==
    [i \in 1..Len(history) |->
        LET timeline_entry == [timestamp |-> history[i].timestamp,
                               scan_id |-> history[i].scan_id,
                               resource_hash |-> history[i].resource_hash]
        IN  IF i < Len(history)
            THEN [changed |-> history[i].resource_hash
                                 # history[i + 1].resource_hash] @@ timeline_entry
            ELSE timeline_entry]

\* HistoricalAnalyzer.analyze_drift on the scans get_scans_in_range returned;
\* order: the order in which detect_changes meets the updated keys
AnalyzeDrift(c, scans, order) ==
    IF Len(scans) < 2
    THEN [c |-> c, raised |-> FALSE,
          value |-> [error |-> "Need at least 2 scans for drift analysis",
                     available_scans |-> Len(scans)]]
    ELSE LET oldest_scan == scans[Len(scans)]
             newest_scan == scans[1]
             r == DetectChanges(c, newest_scan.id, oldest_scan.id, order)
         IN  [c |-> r.c, raised |-> r.raised,
              value |-> [time_range |-> [start |-> oldest_scan.timestamp,
                                         end |-> newest_scan.timestamp],
                         total_changes |-> Len(r.value),
                         changes |-> r.value]]

\* ScanDAO.find_by_id of model/dao
FindById(c, scan_id) ==
    LET found == SelectSeq(Fetch(c, "scan_records"), LAMBDA s : s.id = scan_id)
    IN  IF found = <<>> THEN NoRow ELSE found[1]

\* ScanDAO.find_by_cluster_context(cluster_context, since): the scans of the
\* cluster taken since the given time, in an order left open
FindByClusterContext(c, since) ==
    Arrangements(SelectSeq(Fetch(c, "scan_records"),
                           LAMBDA s : s.timestamp >= since))

\* ResourceDAO.find_by_scan_id: the resource rows of a scan
FindByScanId(c, scan_id) ==
    SelectSeq(Fetch(c, "resource_records"), LAMBDA r : r.scan_id = scan_id)

\* make_resource_key: an f-string renders a null namespace as "None"
MakeResourceKey(resource) ==
    resource.api_version \o "/" \o resource.kind \o "/"
        \o (IF resource.namespace = NULL THEN "None" ELSE resource.namespace)
        \o "/" \o resource.name

\* {make_resource_key(r): r for r in resources}
ResourceMap(resources) ==
    LET F[i \in 0..Len(resources)] ==
            IF i = 0 THEN <<>>
            ELSE Put(F[i - 1], MakeResourceKey(resources[i]), resources[i])
    IN  F[Len(resources)]

\* HistoricalRepository.compare_scans; the lists are filled in the iteration
\* order of a set and are kept here as the sets of their elements
CompareScans(c, scan_id_1, scan_id_2) ==
    LET scan1 == FindById(c, scan_id_1)
        scan2 == FindById(c, scan_id_2)
        resources1 == FindByScanId(c, scan_id_1)
        resources2 == FindByScanId(c, scan_id_2)
        resources1_map == ResourceMap(resources1)
        resources2_map == ResourceMap(resources2)
        both == Keys(resources1_map) \cap Keys(resources2_map)
        differs(k) == Get(resources1_map, k).resource_hash
                          # Get(resources2_map, k).resource_hash
        modified == { [key |-> k, scan1_resource |-> Get(resources1_map, k),
                       scan2_resource |-> Get(resources2_map, k)] :
                      k \in { x \in both : differs(x) } }
        unchanged == { k \in both : ~differs(k) }
        removed == { Get(resources1_map, k) :
                     k \in Keys(resources1_map) \ Keys(resources2_map) }
        added == { Get(resources2_map, k) :
                   k \in Keys(resources2_map) \ Keys(resources1_map) }
    IN  IF scan1 = NoRow \/ scan2 = NoRow
        THEN [raised |-> TRUE, value |-> <<>>]
        ELSE [raised |-> FALSE,
              value |->
                [scan1 |-> [id |-> scan_id_1, timestamp |-> NULL,
                            resource_count |-> Len(resources1)],
                 scan2 |-> [id |-> scan_id_2, timestamp |-> NULL,
                            resource_count |-> Len(resources2)],
                 differences |-> [added |-> added, removed |-> removed,
                                  modified |-> modified,
                                  unchanged_count |-> Cardinality(unchanged)],
                 summary |-> [total_added |-> Cardinality(added),
                              total_removed |-> Cardinality(removed),
                              total_modified |-> Cardinality(modified),
                              total_unchanged |-> Cardinality(unchanged),
                              net_change |-> Len(resources2) - Len(resources1)]]]

DatetimeMin == -1   \* datetime.min, before every timestamp

\* x.get("created_at", datetime.min): scan_records has no such column
CreatedAt(x) == IF "created_at" \in DOMAIN x THEN x.created_at ELSE DatetimeMin

\* sorted(scans, key=...): a stable sort
SortedByCreatedAt(scans) ==
    LET F[i \in 0..Len(scans)] ==
            IF i = 0 THEN <<>>
            ELSE SelectSeq(F[i - 1], LAMBDA y : CreatedAt(y) <= CreatedAt(scans[i]))
                 \o <<scans[i]>>
                 \o SelectSeq(F[i - 1], LAMBDA y : CreatedAt(y) > CreatedAt(scans[i]))
    IN  F[Len(scans)]

\* the drift point of one scan compared with the baseline
DriftPoint(c, baseline_scan_id, scan) ==
    LET comparison == CompareScans(c, baseline_scan_id, scan.id)
        differences == comparison.value.differences
    IN  [scan_id |-> scan.id, timestamp |-> NULL,
         drift_score |-> Cardinality(differences.added)
                         + Cardinality(differences.removed)
                         + Cardinality(differences.modified),
         changes |-> differences]

\* the keys of the added and removed resources, the modified ones forgotten
AddedAndRemovedKeys(point) ==
    { MakeResourceKey(resource) :
        resource \in point.changes.added \cup point.changes.removed }

\* the keys one drift point adds to resources_with_drift
DriftKeys(point) ==
    { MakeResourceKey(resource) :
        resource \in point.changes.added \cup point.changes.removed }
    \cup { change.key : change \in point.changes.modified }

\* HistoricalRepository.get_drift_analysis on the scans
\* find_by_cluster_context returned; baseline_scan_id = NoId: it is omitted
GetDriftAnalysis(c, baseline_scan_id, days, scans) ==
    LET sorted_scans == SortedByCreatedAt(scans)
        baseline_scan == IF baseline_scan_id = NoId THEN sorted_scans[1]
                         ELSE FindById(c, baseline_scan_id)
        subsequent_scans == SelectSeq(sorted_scans,
                                      LAMBDA s : s.id # baseline_scan.id)
        drift_points == [i \in 1..Len(subsequent_scans) |->
                            DriftPoint(c, baseline_scan.id, subsequent_scans[i])]
    IN  IF scans = <<>>
        THEN [raised |-> FALSE,
              value |-> [error |-> "No scans found for cluster in specified period"]]
        ELSE IF baseline_scan = NoRow
        THEN [raised |-> FALSE, value |-> [error |-> "Baseline scan not found"]]
        ELSE [raised |-> FALSE,
              value |->
                [baseline_scan |-> [id |-> baseline_scan.id, timestamp |-> NULL],
                 period_days |-> days,
                 drift_points |-> drift_points,
                 summary |->
                    [total_drift_events |-> Len(drift_points),
                     resources_with_drift |->
                        UNION { DriftKeys(drift_points[i]) :
                                  i \in 1..Len(drift_points) }]]]

Top == 10   \* [:10]

\* get_drift_analysis, lines 274 to 283.  resource_change_counts[key] counts
\* the drift points that list key as modified; the counts are sorted by a
\* stable sort, largest first, so that equal counts keep the order in which
\* the keys entered the dict: drift point by drift point, and within one
\* drift point in the iteration order of the set all_keys of compare_scans
MostUnstableResources(drift_points) ==
    LET modified == [i \in 1..Len(drift_points) |->
                        { change.key : change \in drift_points[i].changes.modified }]
        keys == UNION { modified[i] : i \in 1..Len(modified) }
        resource_change_counts ==
            [key \in keys |->
                Cardinality({ i \in 1..Len(modified) : key \in modified[i] })]
        entered == [key \in keys |->
                       CHOOSE i \in 1..Len(modified) :
                           /\ key \in modified[i]
                           /\ \A j \in 1..(i - 1) : key \notin modified[j]]
        sorted == { o \in Orders(keys) :
                      \A i \in 1..(Len(o) - 1) :
                         \/ resource_change_counts[o[i]]
                               > resource_change_counts[o[i + 1]]
                         \/ /\ resource_change_counts[o[i]]
                                 = resource_change_counts[o[i + 1]]
                            /\ entered[o[i]] <= entered[o[i + 1]] }
    IN  { [i \in 1..(IF Len(o) < Top THEN Len(o) ELSE Top) |->
              <<o[i], resource_change_counts[o[i]]>>] : o \in sorted }

\* the analysis with summary["most_unstable_resources"] set
WithMostUnstable(analysis, most_unstable_resources) ==
    [analysis EXCEPT !.summary =
        @ @@ [most_unstable_resources |-> most_unstable_resources]]

\* what get_drift_analysis returns: r as computed up to line 272, an error
\* as it is, an analysis with one of the lists lines 274 to 283 may give
Reported(r) ==
    IF "drift_points" \in DOMAIN r.value
    THEN { [raised |-> r.raised, value |-> WithMostUnstable(r.value, u)] :
             u \in MostUnstableResources(r.value.drift_points) }
    ELSE { r }

(***************************************************************************)
(* SpecHash: the documents the hash is tried on.                           *)
(***************************************************************************)
MaxFields == 3   \* top-level keys plus metadata keys of a document

MetaPairs ==
    { <<"name", Str("x")>>,
      <<"resourceVersion", Str("1")>>, <<"resourceVersion", Str("999")>>,
      <<"generation", Raw("2")>>,
      <<"managedFields", Raw("[]")>>,
      <<"creationTimestamp", Str("2023-01-01T00:00:00Z")>> }

DictsOfLen(n, pairs) ==
    { d \in [1..n -> pairs] : \A i, j \in 1..n : d[i][1] = d[j][1] => i = j }

MetaDicts(n) == UNION { DictsOfLen(m, MetaPairs) : m \in 0..n }

TopPairs(n) ==
    { <<"metadata", Dict(m)>> : m \in MetaDicts(n) }
    \cup { <<"spec", Dict(<< <<"image", Str(i)>> >>)>> : i \in {"nginx", "apache"} }
    \cup { <<"status", Dict(<< <<"phase", Str(p)>> >>)>> : p \in {"Running", "Failed"} }

Docs == UNION { DictsOfLen(n, TopPairs(MaxFields - n)) : n \in 1..MaxFields }

NoDb == [scan_records |-> <<>>, resource_records |-> <<>>,
         resource_changes |-> <<>>,
         seq |-> [scan_records |-> 0, resource_records |-> 0,
                  resource_changes |-> 0]]

InitHash ==
    /\ docA \in Docs
    /\ docB \in Docs
    /\ hashA = ""
    /\ hashB = ""
    /\ dialect = "sqlite"
    /\ disk = NoDb
    /\ txs = <<>>
    /\ in_transaction = 0
    /\ now = 0
    /\ ret = [op |-> "none"]
    /\ memo = <<>>
    /\ blocks = <<>>
    /\ tasks = <<>>
    /\ tx_conn = 0
    /\ conns = <<>>
    /\ issued = <<>>

\* one call of _calculate_resource_hash on each document
Calculate ==
    /\ hashA = ""
    /\ hashA' = CalculateResourceHash(docA)
    /\ hashB' = CalculateResourceHash(docB)
    /\ UNCHANGED <<docA, docB, connVars, now, ret, memo, blocks, taskVars>>

NextHash == Calculate

SpecHash == InitHash /\ [][NextHash]_vars

(***************************************************************************)
(* DatabaseService called by one synchronous caller.                       *)
(*   Spec         two scans of any content; store_scan may fail            *)
(*   SpecHistory  three scans of one pod, the clock and cleanup_old_scans  *)
(*   SpecTwice    three scans of one pod, one compared pair watched        *)
(***************************************************************************)
MaxScans   == 2   \* Spec: scan ids issued
MaxHistory == 3   \* SpecHistory, SpecTwice: scan ids issued
MaxRes     == 2   \* resources of one scan
MaxChanges == 3   \* Spec: change ids issued
MaxRecorded == 2  \* SpecHistory, SpecTwice: change ids issued
MaxTime    == 1   \* clock ticks

\* the cluster object a document describes: an absent and an empty namespace
\* both say "cluster scoped"
ObjectOf(r) ==
    <<r.api_version, r.kind,
      IF NamespaceOf(r) = NULL THEN "" ELSE NamespaceOf(r), NameOf(r)>>

ListOf(S) ==
    LET F[i \in 0..Len(ResourcePool)] ==
            IF i = 0 THEN <<>>
            ELSE IF i \in S THEN Append(F[i - 1], ResourcePool[i]) ELSE F[i - 1]
    IN  F[Len(ResourcePool)]

\* a scan lists at most one document for each cluster object
ScanInputs ==
    { ListOf(S) : S \in
        { T \in SUBSET (1..Len(ResourcePool)) :
            /\ Cardinality(T) <= MaxRes
            /\ \A i, j \in T :
                 ObjectOf(ResourcePool[i]) = ObjectOf(ResourcePool[j]) => i = j } }

\* the scans of SpecHistory: pod a as it was, edited, or gone
PodInputs == { ListOf({}), ListOf({1}), ListOf({3}) }

\* the scans of SpecTwice: pod a, with or without the namespace object a
PairInputs == { ListOf({1}), ListOf({1, 5}) }

KeepDays == {0}

Conn == [dialect |-> dialect, disk |-> disk, txs |-> txs,
         in_transaction |-> in_transaction]

SetConn(c) ==
    /\ dialect' = c.dialect
    /\ disk' = c.disk
    /\ txs' = c.txs
    /\ in_transaction' = c.in_transaction

Returned(op, r) == [op |-> op, raised |-> r.raised, value |-> r.value]

Stored(d, scan_id) == scan_id \in Ids(d.scan_records)

\* what a caller calls the diff: the changes without their row ids
Logical(changes) ==
    { <<changes[i].kind, changes[i].namespace, changes[i].name,
        changes[i].change_type>> : i \in 1..Len(changes) }

InitDb ==
    /\ docA = <<>> /\ docB = <<>> /\ hashA = "" /\ hashB = ""
    /\ dialect \in {"sqlite", "postgresql"}
    /\ disk = NoDb
    /\ txs = <<>>
    /\ in_transaction = 0
    /\ now = 0
    /\ ret = [op |-> "none"]
    /\ memo = <<>>
    /\ blocks = <<>>
    /\ tasks = <<>>
    /\ tx_conn = 0
    /\ conns = <<>>
    /\ issued = <<>>

Init == InitDb

\* a call of store_scan; failAt = 0: the engine takes every row
StoreScanCall(inputs, limit, failing) ==
    \E resources \in inputs :
    \E failAt \in IF failing THEN 1..Len(resources) ELSE {0} :
        /\ disk.seq.scan_records < limit
        /\ LET r == StoreScan(Conn, resources, now, failAt)
           IN  /\ SetConn(r.c)
               /\ ret' = Returned("store_scan", r)
        /\ UNCHANGED <<taskVars, hashVars, now, blocks>>

\* a call of detect_changes(new, old), old = NoId: detect_changes(new)
DetectChangesCall(ids, olds, limit) ==
    \E new \in ids : \E old \in olds :
    \E order \in UpdateOrders(Conn, new, old) :
        LET r == DetectChanges(Conn, new, old, order)
        IN  /\ r.c.disk.seq.resource_changes <= limit
            /\ SetConn(r.c)
            /\ ret' = [op |-> "detect_changes", new |-> new, old |-> old,
                       baseline |-> r.baseline, raised |-> r.raised,
                       value |-> r.value,
                       before |-> Len(disk.resource_changes)]
            /\ UNCHANGED <<taskVars, hashVars, now, blocks>>

StoreScanOk    == StoreScanCall(ScanInputs, MaxScans, FALSE) /\ UNCHANGED memo
StoreScanFails == StoreScanCall(ScanInputs, MaxScans, TRUE) /\ UNCHANGED memo
Reconciles ==
    /\ DetectChangesCall(1..MaxScans, 0..MaxScans, MaxChanges)
    /\ UNCHANGED memo

Next ==
    \/ StoreScanOk
    \/ StoreScanFails
    \/ Reconciles

Spec == Init /\ [][Next]_vars

StoresPod == StoreScanCall(PodInputs, MaxHistory, FALSE) /\ UNCHANGED memo

\* detect_changes(new)
ReconcilesLatest ==
    /\ DetectChangesCall(1..MaxHistory, {NoId}, MaxRecorded)
    /\ UNCHANGED memo

CleansUp ==
    \E keep_days \in KeepDays :
        LET r == CleanupOldScans(Conn, now, keep_days)
        IN  /\ SetConn(r.c)
            /\ ret' = [op |-> "cleanup_old_scans", raised |-> r.raised,
                       value |-> r.value, cutoff |-> now - keep_days,
                       was |-> disk]
            /\ UNCHANGED <<taskVars, hashVars, now, memo, blocks>>

Tick ==
    /\ now < MaxTime
    /\ now' = now + 1
    /\ UNCHANGED <<taskVars, hashVars, connVars, ret, memo, blocks>>

\* a call of analyze_drift(days)
AnalyzeDriftCall(window) ==
    \E days \in window : \E scans \in GetInRange(Conn, now - days, now) :
    \E order \in (IF Len(scans) < 2 THEN {<<>>}
                  ELSE UpdateOrders(Conn, scans[1].id, scans[Len(scans)].id)) :
        LET r == AnalyzeDrift(Conn, scans, order)
        IN  /\ r.c.disk.seq.resource_changes <= MaxRecorded
            /\ SetConn(r.c)
            /\ ret' = [op |-> "analyze_drift", days |-> days, window |-> scans,
                       raised |-> r.raised, value |-> r.value,
                       before |-> disk.resource_changes]
            /\ UNCHANGED <<taskVars, hashVars, now, blocks>>

\* analyze_drift over the scans of this tick, or of this and the last
AnalyzesHistory == AnalyzeDriftCall(0..MaxTime) /\ UNCHANGED memo

NextHistory ==
    \/ StoresPod
    \/ ReconcilesLatest
    \/ CleansUp
    \/ Tick
    \/ AnalyzesHistory

SpecHistory == Init /\ [][NextHistory]_vars

\* the first of two calls detect_changes(new, old) on two stored scans: memo
\* keeps the pair, the diff returned, and how many scans and change records
\* were stored at the time
FirstOfTwo ==
    /\ memo = <<>>
    /\ DetectChangesCall(1..MaxHistory, 1..MaxHistory, MaxRecorded)
    /\ ret'.old # NoId /\ ~ret'.raised
    /\ Stored(disk, ret'.new) /\ Stored(disk, ret'.old)
    /\ memo' = [new |-> ret'.new, old |-> ret'.old,
                diff |-> Logical(ret'.value),
                scans |-> Len(disk.scan_records),
                before |-> ret'.before]

ReconcilesPods ==
    /\ DetectChangesCall(1..MaxHistory, 1..MaxHistory, MaxRecorded)
    /\ UNCHANGED memo

StoresPair == StoreScanCall(PairInputs, MaxHistory, FALSE) /\ UNCHANGED memo

NextTwice ==
    \/ StoresPair
    \/ ReconcilesPods
    \/ FirstOfTwo

SpecTwice == Init /\ [][NextTwice]_vars

(***************************************************************************)
(* SpecConn: one caller of AsyncDatabaseConnection writing scan headers,   *)
(* alone, in batches and inside transaction() blocks.  Every call stamps   *)
(* its rows with the time of the call, and the clock moves with each call. *)
(* blocks lists, for each transaction() block the caller is in, the stamps *)
(* of the calls made inside it, outermost block first.  An exception is    *)
(* caught outside every block: while ret.raised holds inside a block, the  *)
(* exception is on its way out of it.                                      *)
(***************************************************************************)
MaxDepth  == 2   \* transaction() blocks inside one another
MaxBatch  == 2   \* records of one bulk_insert
MaxWrites == 3   \* insert and bulk_insert calls

Header(i, clock) == [total_resources |-> i, timestamp |-> clock]

\* what a read of the table returns to the caller
Visible == Fetch(Conn, "scan_records")

Leaving == blocks # <<>> /\ ret.op # "none" /\ ret.raised

\* the call stamped clock took place inside every open block
Inside(clock) == [i \in 1..Len(blocks) |-> blocks[i] \cup {clock}]

EntersBlock ==
    /\ ~Leaving
    /\ Len(blocks) < MaxDepth
    /\ LET r == TransactionEnter(Conn)
       IN  /\ SetConn(r.c)
           /\ ret' = Returned("enter", r)
           /\ blocks' = IF r.raised THEN blocks ELSE Append(blocks, {})
    /\ UNCHANGED <<taskVars, hashVars, now, memo>>

\* the body of the innermost block has run to its end
LeavesBlock ==
    /\ ~Leaving
    /\ blocks # <<>>
    /\ SetConn(TransactionExit(Conn, FALSE))
    /\ ret' = [op |-> "transaction", raised |-> FALSE,
               wrote |-> blocks[Len(blocks)]]
    /\ blocks' = SubSeq(blocks, 1, Len(blocks) - 1)
    /\ UNCHANGED <<taskVars, hashVars, now, memo>>

\* an exception leaves the innermost block: one raised by a call inside it,
\* or one the body raises itself
RaisesOutOfBlock ==
    /\ blocks # <<>>
    /\ SetConn(TransactionExit(Conn, TRUE))
    /\ ret' = [op |-> "transaction", raised |-> TRUE,
               wrote |-> blocks[Len(blocks)]]
    /\ blocks' = SubSeq(blocks, 1, Len(blocks) - 1)
    /\ UNCHANGED <<taskVars, hashVars, now, memo>>

InsertsOne ==
    /\ ~Leaving
    /\ now < MaxWrites
    /\ \E fail \in BOOLEAN :
         LET r == InsertReturningId(Conn, "scan_records", Header(1, now), fail)
         IN  /\ SetConn(r.c)
             /\ ret' = Returned("insert_returning_id", r)
    /\ blocks' = Inside(now)
    /\ now' = now + 1
    /\ UNCHANGED <<taskVars, hashVars, memo>>

BulkInserts ==
    /\ ~Leaving
    /\ now < MaxWrites
    /\ \E n \in 0..MaxBatch : \E failAt \in 0..n :
         LET records == [i \in 1..n |-> Header(i, now)]
             r == BulkInsert(Conn, "scan_records", records, failAt)
         IN  /\ SetConn(r.c)
             /\ ret' = [op |-> "bulk_insert", raised |-> r.raised,
                        value |-> r.value, records |-> records,
                        before |-> Visible]
    /\ blocks' = Inside(now)
    /\ now' = now + 1
    /\ UNCHANGED <<taskVars, hashVars, memo>>

\* bulk_insert of resource rows that name the scan scan_id, stored or not;
\* the engine refuses a row only for its foreign key
BulkInsertsRows ==
    /\ ~Leaving
    /\ now < MaxWrites
    /\ \E scan_id \in 1..MaxWrites : \E n \in 1..MaxBatch :
         LET records == [i \in 1..n |->
                           [PoolRecord[ResourcePool[i]] EXCEPT !.scan_id = scan_id]]
             r == BulkInsert(Conn, "resource_records", records, 0)
         IN  /\ SetConn(r.c)
             /\ ret' = [op |-> "bulk_insert_rows", raised |-> r.raised,
                        value |-> r.value, scan_id |-> scan_id,
                        stored |-> scan_id \in Ids(Visible),
                        before |-> Fetch(Conn, "resource_records")]
    /\ blocks' = Inside(now)
    /\ now' = now + 1
    /\ UNCHANGED <<taskVars, hashVars, memo>>

NextConn ==
    \/ EntersBlock
    \/ LeavesBlock
    \/ RaisesOutOfBlock
    \/ InsertsOne
    \/ BulkInserts
    \/ BulkInsertsRows

SpecConn == Init /\ [][NextConn]_vars

(***************************************************************************)
(* SpecTasks: asyncio tasks sharing one AsyncDatabaseConnection.  A task   *)
(* gives way to the others only at an await that suspends it, so a step    *)
(* is the code a task runs when it resumes, up to and with the engine call *)
(* it awaits next; the engine runs the calls in the order they are made.   *)
(* e = [dialect, disk, in_transaction, tx_conn, conns] is the connection   *)
(* object and the engine behind it.  SQLite has the one connection         *)
(* self._conn, conns[1]; PostgreSQL has one entry of conns for each        *)
(* connection acquired from the pool, and Pool stands for the pool itself. *)
(***************************************************************************)
MaxRows     == 2   \* resource rows of one ingestion
MaxRuns     == 3   \* ingestions of all tasks
MaxCleanups == 1   \* cleanups of all tasks

Tasks == {"a", "b"}

Pool == 0   \* _tx_conn is None

NewConn == [open |-> FALSE, failed |-> FALSE, released |-> FALSE, writes |-> <<>>]

Engine == [dialect |-> dialect, disk |-> disk, in_transaction |-> in_transaction,
           tx_conn |-> tx_conn, conns |-> conns]

\* DELETE FROM scan_records WHERE timestamp < :cutoff, every scan being older
DeleteScans(d, dia) == CleanupOld([dialect |-> dia, disk |-> d], MaxTime + 1).c.disk

\* the tables once the statements of a transaction are applied to them
Written(d, writes, dia) ==
    LET F[i \in 0..Len(writes)] ==
            IF i = 0 THEN d
            ELSE IF writes[i].op = "insert"
                 THEN [F[i - 1] EXCEPT
                         ![writes[i].table] = Append(@, writes[i].row),
                         !.seq[writes[i].table] = Max({@, writes[i].row.id})]
                 ELSE DeleteScans(F[i - 1], dia)
    IN  F[Len(writes)]

\* the connection a statement runs on: self._conn, or self._tx_conn or self._pool
Target(e) == IF e.dialect = "sqlite" THEN 1 ELSE e.tx_conn

InTransaction(e, k) == k # Pool /\ e.conns[k].open

\* the tables as a statement on connection k finds them
View(e, k) ==
    IF InTransaction(e, k) THEN Written(e.disk, e.conns[k].writes, e.dialect)
    ELSE e.disk

\* the scans another open transaction has written and not committed
PendingElsewhere(e, k) ==
    UNION { Ids(View(e, j).scan_records) \ Ids(e.disk.scan_records) :
              j \in { i \in 1..Len(e.conns) : i # k /\ e.conns[i].open } }

\* PostgreSQL makes a statement wait while the row it refers to, or a row that
\* refers to the scans it deletes, belongs to a transaction still open
Waits(e, w) ==
    /\ e.dialect = "postgresql"
    /\ LET k == Target(e)
       IN  IF w.op = "insert"
           THEN /\ w.table = "resource_records"
                /\ w.row.scan_id \notin Ids(View(e, k).scan_records)
                /\ w.row.scan_id \in PendingElsewhere(e, k)
           ELSE \E j \in 1..Len(e.conns) :
                   /\ j # k /\ e.conns[j].open
                   /\ \E i \in 1..Len(e.conns[j].writes) :
                        /\ e.conns[j].writes[i].op = "insert"
                        /\ e.conns[j].writes[i].table = "resource_records"

\* one INSERT or DELETE sent to the engine; fail: the engine refuses the row
Statement(e, w, fail) ==
    LET k    == Target(e)
        seen == View(e, k)
        id   == IF w.op = "insert" THEN seen.seq[w.table] + 1
                ELSE Len(seen.scan_records)
        done == IF w.op = "insert"
                THEN [w EXCEPT !.row = [id |-> id] @@ w.row] ELSE w
        bad  == \/ fail
                \/ /\ e.dialect = "postgresql"
                   /\ w.op = "insert" /\ w.table = "resource_records"
                   /\ w.row.scan_id \notin Ids(seen.scan_records)
        drawn == IF e.dialect = "postgresql" /\ w.op = "insert"
                 THEN [e EXCEPT !.disk.seq[w.table] = id] ELSE e
        no(x) == [e |-> x, raised |-> TRUE, value |-> NoId]
    IN  IF e.dialect = "sqlite"
        THEN \* sqlite3 opens a transaction before INSERT and DELETE
             IF bad THEN no([e EXCEPT !.conns[1].open = TRUE])
             ELSE [e |-> [e EXCEPT !.conns[1].open = TRUE,
                                   !.conns[1].writes = Append(@, done)],
                   raised |-> FALSE, value |-> id]
        ELSE IF k # Pool /\ e.conns[k].released THEN no(e)
        ELSE IF InTransaction(e, k) /\ e.conns[k].failed THEN no(e)
        ELSE IF bad
             THEN no(IF InTransaction(e, k)
                     THEN [drawn EXCEPT !.conns[k].failed = TRUE] ELSE drawn)
        ELSE [e |-> IF InTransaction(e, k)
                    THEN [drawn EXCEPT !.conns[k].writes = Append(@, done)]
                    ELSE [drawn EXCEPT !.disk = Written(@, <<done>>, e.dialect)],
              raised |-> FALSE, value |-> id]

\* COMMIT (failed = FALSE) or ROLLBACK on connection k
EndTransaction(e, k, failed) ==
    [e EXCEPT
       !.disk = IF e.conns[k].open /\ ~failed /\ ~e.conns[k].failed
                THEN Written(@, e.conns[k].writes, e.dialect) ELSE @,
       !.conns[k] = [@ EXCEPT !.open = FALSE, !.failed = FALSE, !.writes = <<>>]]

\* a task between two calls
Idle == [pc |-> "idle", scan |-> NoId, i |-> 0, conn |-> Pool, prev |-> Pool,
         runs |-> 0, cleanups |-> 0]

\* the call of the task has returned or raised
Ended(me) == [me EXCEPT !.pc = "idle", !.i = 0, !.conn = Pool, !.prev = Pool]

\* the header and the rows an ingestion writes carry the task and its run
HeaderOf(t, me) ==
    [op |-> "insert", table |-> "scan_records",
     row |-> [timestamp |-> 0, total_resources |-> MaxRows,
              cluster_context |-> <<t, me.runs>>]]

RowOf(t, me) ==
    [op |-> "insert", table |-> "resource_records",
     row |-> [scan_id |-> me.scan, kind |-> "Pod", name |-> me.i + 1,
              resource_data |-> <<t, me.runs>>]]

\* transaction() up to its first await: BEGIN, or pool.acquire()
BeginBlock(e, me) ==
    IF e.dialect = "sqlite"
    THEN IF e.conns[1].open
         THEN [e |-> e, me |-> Ended(me)]
         ELSE [e |-> [e EXCEPT !.conns[1].open = TRUE],
               me |-> [me EXCEPT !.pc = "begun"]]
    ELSE [e |-> [e EXCEPT !.conns = Append(@, NewConn)],
          me |-> [me EXCEPT !.pc = "acquired", !.conn = Len(e.conns) + 1]]

\* the block is left: commit(), or rollback() in the except clause, on the
\* connection of the block
ExitBlock(e, me, failed) ==
    [e  |-> EndTransaction(e, IF e.dialect = "sqlite" THEN 1 ELSE me.conn, failed),
     me |-> [me EXCEPT !.pc = "exit_sent"]]

\* the loop of bulk_insert sends its next row
NextRow(e, t, me, fail) ==
    LET r == Statement(e, RowOf(t, me), fail)
    IN  [e  |-> r.e,
         me |-> IF r.raised THEN [me EXCEPT !.pc = "row_failed"]
                ELSE [me EXCEPT !.pc = "row_ok", !.i = @ + 1]]

\* the loop goes on after a row, or ends and with it the block
AfterRow(e, t, me, fail) ==
    IF me.i < MaxRows THEN NextRow(e, t, me, fail) ELSE ExitBlock(e, me, FALSE)

SetEngine(e) ==
    /\ dialect' = e.dialect
    /\ disk' = e.disk
    /\ in_transaction' = e.in_transaction
    /\ tx_conn' = e.tx_conn
    /\ conns' = e.conns
    /\ UNCHANGED <<hashVars, txs, now, ret, memo, blocks>>

\* the calls all tasks have made so far
Runs == tasks["a"].runs + tasks["b"].runs
Cleanups == tasks["a"].cleanups + tasks["b"].cleanups

Becomes(t, r) ==
    /\ SetEngine(r.e)
    /\ tasks' = [tasks EXCEPT ![t] = r.me]

Hands(id, t, me) == Append(issued, [id |-> id, by |-> <<t, me.runs>>])

InitTasks ==
    /\ docA = <<>> /\ docB = <<>> /\ hashA = "" /\ hashB = ""
    /\ dialect \in {"sqlite", "postgresql"}
    /\ disk = NoDb
    /\ txs = <<>>
    /\ in_transaction = 0
    /\ now = 0
    /\ ret = [op |-> "none"]
    /\ memo = <<>>
    /\ blocks = <<>>
    /\ tasks = [t \in Tasks |-> Idle]
    /\ tx_conn = Pool
    /\ conns = IF dialect = "sqlite" THEN <<NewConn>> ELSE <<>>
    /\ issued = <<>>

\* an ingestion starts: insert_returning_id sends the INSERT of the header
SendsHeader(t) ==
    LET me == [tasks[t] EXCEPT !.runs = @ + 1, !.scan = NoId]
        r  == Statement(Engine, HeaderOf(t, me), FALSE)
    IN  /\ tasks[t].pc = "idle"
        /\ Runs < MaxRuns
        /\ Becomes(t, [e  |-> r.e,
                       me |-> IF r.raised THEN Ended(me)
                              ELSE [me EXCEPT
                                      !.scan = r.value,
                                      !.pc = IF dialect = "sqlite"
                                             THEN "header_sent"
                                             ELSE "header_done"]])
        /\ issued' = IF r.raised THEN issued ELSE Hands(r.value, t, me)

\* SQLite: insert_returning_id commits if _in_transaction is 0 and returns the
\* id; when it does not commit, bulk_insert goes on to its BEGIN at once
ReturnsHeader(t) ==
    /\ tasks[t].pc = "header_sent"
    /\ Becomes(t, IF in_transaction = 0
                  THEN [e |-> EndTransaction(Engine, 1, FALSE),
                        me |-> [tasks[t] EXCEPT !.pc = "header_done"]]
                  ELSE BeginBlock(Engine, tasks[t]))
    /\ UNCHANGED issued

\* bulk_insert enters transaction()
EntersTransaction(t) ==
    /\ tasks[t].pc = "header_done"
    /\ Becomes(t, BeginBlock(Engine, tasks[t]))
    /\ UNCHANGED issued

\* PostgreSQL: tx.start() on the connection acquired
StartsTransaction(t) ==
    /\ tasks[t].pc = "acquired"
    /\ Becomes(t, [e  |-> [Engine EXCEPT !.conns[tasks[t].conn].open = TRUE],
                   me |-> [tasks[t] EXCEPT !.pc = "begun"]])
    /\ UNCHANGED issued

\* _in_transaction += 1, PostgreSQL: prev_conn = _tx_conn, _tx_conn = conn;
\* then the body of the block sends its first row
SendsFirstRow(t) ==
    /\ tasks[t].pc = "begun"
    /\ LET me == [tasks[t] EXCEPT !.prev = tx_conn]
           e  == [Engine EXCEPT !.in_transaction = @ + 1,
                                !.tx_conn = IF dialect = "sqlite" THEN @ ELSE me.conn]
       IN  /\ ~Waits(e, RowOf(t, me))
           /\ \E fail \in BOOLEAN : Becomes(t, NextRow(e, t, me, fail))
    /\ UNCHANGED issued

\* a row is in: SQLite commits if _in_transaction is 0; otherwise the loop
\* sends the next row or the block ends with commit()
SendsNextRow(t) ==
    /\ tasks[t].pc \in {"row_ok", "row_committed"}
    /\ IF dialect = "sqlite" /\ in_transaction = 0 /\ tasks[t].pc = "row_ok"
       THEN Becomes(t, [e |-> EndTransaction(Engine, 1, FALSE),
                        me |-> [tasks[t] EXCEPT !.pc = "row_committed"]])
       ELSE /\ tasks[t].i < MaxRows => ~Waits(Engine, RowOf(t, tasks[t]))
            /\ \E fail \in BOOLEAN : Becomes(t, AfterRow(Engine, t, tasks[t], fail))
    /\ UNCHANGED issued

\* a row raised: the except clause of transaction() rolls back
RollsBack(t) ==
    /\ tasks[t].pc = "row_failed"
    /\ Becomes(t, ExitBlock(Engine, tasks[t], TRUE))
    /\ UNCHANGED issued

\* the finally clause: _in_transaction -= 1, PostgreSQL: _tx_conn = prev_conn
\* and the connection goes back to the pool
LeavesTransaction(t) ==
    /\ tasks[t].pc = "exit_sent"
    /\ Becomes(t,
         [e  |-> IF dialect = "sqlite"
                 THEN [Engine EXCEPT !.in_transaction = @ - 1]
                 ELSE [Engine EXCEPT !.in_transaction = @ - 1,
                                     !.tx_conn = tasks[t].prev,
                                     !.conns[tasks[t].conn].released = TRUE],
          me |-> Ended(tasks[t])])
    /\ UNCHANGED issued

\* cleanup_old_scans: execute sends the DELETE
SendsDelete(t) ==
    LET w == [op |-> "delete"]
        r == Statement(Engine, w, FALSE)
    IN  /\ tasks[t].pc = "idle"
        /\ Cleanups < MaxCleanups
        /\ ~Waits(Engine, w)
        /\ Becomes(t, [e  |-> r.e,
                       me |-> [tasks[t] EXCEPT
                                 !.cleanups = @ + 1,
                                 !.pc = IF dialect = "sqlite" /\ ~r.raised
                                        THEN "delete_sent" ELSE "idle"]])
        /\ UNCHANGED issued

\* SQLite: execute commits if _in_transaction is 0 and returns the count
ReturnsCount(t) ==
    /\ tasks[t].pc = "delete_sent"
    /\ Becomes(t, [e  |-> IF in_transaction = 0
                          THEN EndTransaction(Engine, 1, FALSE) ELSE Engine,
                   me |-> Ended(tasks[t])])
    /\ UNCHANGED issued

NextTasks ==
    \E t \in Tasks :
        \/ SendsHeader(t)
        \/ ReturnsHeader(t)
        \/ EntersTransaction(t)
        \/ StartsTransaction(t)
        \/ SendsFirstRow(t)
        \/ SendsNextRow(t)
        \/ RollsBack(t)
        \/ LeavesTransaction(t)
        \/ SendsDelete(t)
        \/ ReturnsCount(t)

SpecTasks == InitTasks /\ [][NextTasks]_vars

(***************************************************************************)
(* SpecDrift, SpecFew, SpecTimeline: scans stored while the clock moves,   *)
(* and the analyses read over them.  A day is one tick of the clock.       *)
(***************************************************************************)
MaxClock == 2   \* clock ticks

\* pod a alone, or pod a edited with pod b
DriftInputs == { ListOf({1}), ListOf({3, 4}) }

\* the window holds the scans of this tick, or all of them
Days == {0, MaxClock}

StoresDrift == StoreScanCall(DriftInputs, MaxHistory, FALSE) /\ UNCHANGED memo

Passes ==
    /\ now < MaxClock
    /\ now' = now + 1
    /\ UNCHANGED <<taskVars, hashVars, connVars, ret, memo, blocks>>

\* analyze_drift(days)
AnalyzesDrift == AnalyzeDriftCall(Days) /\ UNCHANGED memo

\* get_drift_analysis(cluster_context, baseline_scan_id, days)
GetsDriftAnalysis ==
    \E days \in Days : \E baseline_scan_id \in 0..MaxHistory :
    \E scans \in FindByClusterContext(Conn, now - days) :
    \E r \in Reported(GetDriftAnalysis(Conn, baseline_scan_id, days, scans)) :
        /\ ret.op # "get_drift_analysis"
        /\ ret' = [op |-> "get_drift_analysis", days |-> days,
                   baseline_scan_id |-> baseline_scan_id, window |-> scans,
                   raised |-> r.raised, value |-> r.value,
                   before |-> disk.resource_changes]
        /\ UNCHANGED <<taskVars, hashVars, connVars, now, memo, blocks>>

\* get_resource_timeline("Pod", "a", "default", limit)
GetsResourceTimeline ==
    \E limit \in 1..MaxHistory :
    \E history \in History(Conn, "Pod", "a", "default", limit) :
        /\ ret' = [op |-> "get_resource_timeline", limit |-> limit,
                   raised |-> FALSE, value |-> GetResourceTimeline(history)]
        /\ UNCHANGED <<taskVars, hashVars, connVars, now, memo, blocks>>

NextDrift ==
    \/ StoresDrift
    \/ Passes
    \/ GetsDriftAnalysis

SpecDrift == Init /\ [][NextDrift]_vars

\* SpecFew: both drift analyses over at most two scans
StoresFew == StoreScanCall(DriftInputs, MaxScans, FALSE) /\ UNCHANGED memo

NextFew ==
    \/ StoresFew
    \/ Passes
    \/ AnalyzesDrift
    \/ GetsDriftAnalysis

SpecFew == Init /\ [][NextFew]_vars

\* SpecTimeline: scans of pod a as it was, edited, or gone, and its timeline
StoresObservation == StoreScanCall(PodInputs, MaxHistory, FALSE) /\ UNCHANGED memo

NextTimeline ==
    \/ StoresObservation
    \/ Passes
    \/ GetsResourceTimeline

SpecTimeline == Init /\ [][NextTimeline]_vars

(***************************************************************************)
(* SpecScore: _calculate_stability_score on a list of changes and a number *)
(* of resources.  A score is kept in hundredths, the precision round(., 2) *)
(* leaves it with: 6667 is 66.67.                                          *)
(***************************************************************************)
MaxCount == 12   \* changes in the list
MaxTotal == 9    \* resources of the newest scan

\* round(num / den, 2) in hundredths, for num >= 0 and den > 0: to the
\* nearest hundredth, and to the even one of two equally near
Round2(num, den) ==
    LET q == (100 * num) \div den
        r == (100 * num) % den
    IN  IF 2 * r < den THEN q
        ELSE IF 2 * r > den THEN q + 1
        ELSE IF q % 2 = 0 THEN q ELSE q + 1

\* the score without max(0, .): below 0 once the changes outnumber the resources
UnclampedScore(changes, total_resources) ==
    IF total_resources = 0 THEN 10000
    ELSE IF Len(changes) <= total_resources
         THEN Round2(100 * (total_resources - Len(changes)), total_resources)
         ELSE 0 - Round2(100 * (Len(changes) - total_resources), total_resources)

\* HistoricalAnalyzer._calculate_stability_score:
\* round(max(0, 100 - len(changes) / total_resources * 100), 2)
CalculateStabilityScore(changes, total_resources) ==
    IF total_resources = 0 THEN 10000
    ELSE IF Len(changes) >= total_resources THEN 0
         ELSE Round2(100 * (total_resources - Len(changes)), total_resources)

\* a list of n changes
Changes(n) == [i \in 1..n |-> [change_type |-> "updated"]]

InitScore ==
    /\ docA = <<>> /\ docB = <<>> /\ hashA = "" /\ hashB = ""
    /\ dialect = "sqlite"
    /\ disk = NoDb
    /\ txs = <<>>
    /\ in_transaction = 0
    /\ now = 0
    /\ ret = [op |-> "none"]
    /\ memo \in [changes : {Changes(n) : n \in 0..MaxCount},
                  total_resources : 0..MaxTotal]
    /\ blocks = <<>>
    /\ tasks = <<>>
    /\ tx_conn = 0
    /\ conns = <<>>
    /\ issued = <<>>

CalculatesStability ==
    /\ ret.op = "none"
    /\ ret' = [op |-> "_calculate_stability_score", raised |-> FALSE,
               value |-> CalculateStabilityScore(memo.changes,
                                                 memo.total_resources)]
    /\ UNCHANGED <<taskVars, hashVars, connVars, now, memo, blocks>>

NextScore == CalculatesStability

SpecScore == InitScore /\ [][NextScore]_vars

(***************************************************************************)
(* AnalysisService: the health report from the scans, the drift analysis   *)
(* and the change summary it has fetched.  scan_frequency is the quotient  *)
(* len(recent_scans) / days, kept as [scans, days].                        *)
(***************************************************************************)
Healthy  == "healthy"
Warning  == "warning"
Critical == "critical"

\* the middle rule with score > 60 for score >= 60
WarningAbove60(health_score) ==
    IF health_score >= 80 THEN Healthy
    ELSE IF health_score > 60 THEN Warning
    ELSE Critical

\* determine_health_status: the first rule of HEALTH_STATUS_RULES that holds
DetermineHealthStatus(health_score) ==
    IF health_score >= 80 THEN Healthy
    ELSE IF health_score >= 60 THEN Warning
    ELSE Critical

\* scan_frequency < 0.5, with scan_frequency = 0 if days <= 0
BelowHalf(scan_frequency) ==
    IF scan_frequency.days > 0
    THEN 2 * scan_frequency.scans < scan_frequency.days
    ELSE TRUE

Least(a, b) == IF a < b THEN a ELSE b

\* drift_analysis["summary"].get("total_drift_events", 0), if there is a summary
HasSummary(drift_analysis) == "summary" \in DOMAIN drift_analysis

\* change_summary.get("total_changes", 0)
TotalChanges(change_summary) ==
    IF "total_changes" \in DOMAIN change_summary
    THEN change_summary.total_changes ELSE 0

\* get_cluster_health_report, lines 218 to 237
HealthScore(scan_frequency, drift_analysis, change_summary) ==
    LET drift_events == IF HasSummary(drift_analysis)
                        THEN drift_analysis.summary.total_drift_events ELSE 0
        total_changes == TotalChanges(change_summary)
        afterDrift == IF drift_events > 10
                      THEN 100 - Least(30, drift_events * 2) ELSE 100
        afterChanges == IF total_changes > 50
                        THEN afterDrift - Least(20, (total_changes - 50) \div 10)
                        ELSE afterDrift
        afterFrequency == IF BelowHalf(scan_frequency)
                          THEN afterChanges - 20 ELSE afterChanges
    IN  IF afterFrequency < 0 THEN 0 ELSE afterFrequency

\* ', '.join(names)
RECURSIVE Join(_)
Join(names) ==
    IF names = <<>> THEN ""
    ELSE IF Len(names) = 1 THEN names[1]
    ELSE names[1] \o ", " \o Join(Tail(names))

\* the recommendations with the drift rule firing from 20 events on
DriftFrom20(health_score, scan_frequency, drift_analysis, change_summary) ==
    LET unstable == IF HasSummary(drift_analysis)
                    THEN drift_analysis.summary.most_unstable_resources ELSE <<>>
        recommendations ==
            (IF health_score < 60
             THEN <<"Cluster health is critical - investigate recent changes and drift">>
             ELSE IF health_score < 80
             THEN <<"Cluster health needs attention - review configuration drift">>
             ELSE <<>>)
         \o (IF BelowHalf(scan_frequency)
             THEN <<"Increase scanning frequency for better monitoring coverage">>
             ELSE <<>>)
         \o (IF HasSummary(drift_analysis)
                 /\ drift_analysis.summary.total_drift_events >= 20
             THEN <<"High configuration drift detected - review change management processes">>
             ELSE <<>>)
         \o (IF unstable # <<>>
             THEN <<"Focus on stabilizing frequently changing resources: "
                    \o Join([i \in 1..Least(3, Len(unstable)) |-> unstable[i][1]])>>
             ELSE <<>>)
         \o (IF TotalChanges(change_summary) > 100
             THEN <<"High change volume - consider implementing change freezes or approval processes">>
             ELSE <<>>)
    IN  IF recommendations = <<>>
        THEN <<"Cluster appears healthy - continue regular monitoring">>
        ELSE recommendations

\* AnalysisService._generate_recommendations
GenerateRecommendations(health_score, scan_frequency, drift_analysis, change_summary) ==
    LET unstable == IF HasSummary(drift_analysis)
                    THEN drift_analysis.summary.most_unstable_resources ELSE <<>>
        recommendations ==
            (IF health_score < 60
             THEN <<"Cluster health is critical - investigate recent changes and drift">>
             ELSE IF health_score < 80
             THEN <<"Cluster health needs attention - review configuration drift">>
             ELSE <<>>)
         \o (IF BelowHalf(scan_frequency)
             THEN <<"Increase scanning frequency for better monitoring coverage">>
             ELSE <<>>)
         \o (IF HasSummary(drift_analysis)
                 /\ drift_analysis.summary.total_drift_events > 20
             THEN <<"High configuration drift detected - review change management processes">>
             ELSE <<>>)
         \o (IF unstable # <<>>
             THEN <<"Focus on stabilizing frequently changing resources: "
                    \o Join([i \in 1..Least(3, Len(unstable)) |-> unstable[i][1]])>>
             ELSE <<>>)
         \o (IF TotalChanges(change_summary) > 100
             THEN <<"High change volume - consider implementing change freezes or approval processes">>
             ELSE <<>>)
    IN  IF recommendations = <<>>
        THEN <<"Cluster appears healthy - continue regular monitoring">>
        ELSE recommendations

\* get_cluster_health_report from line 203 on; recent_scans: how many scans
\* get_recent_scans returned
GetClusterHealthReport(recent_scans, days, drift_analysis, change_summary) ==
    IF recent_scans = 0
    THEN [status |-> "no_data", message |-> "No recent scan data available"]
    ELSE LET scan_frequency == [scans |-> IF days > 0 THEN recent_scans ELSE 0,
                                days |-> days]
             health_score == HealthScore(scan_frequency, drift_analysis,
                                         change_summary)
         IN  [period_days |-> days,
              status |-> DetermineHealthStatus(health_score),
              health_score |-> health_score,
              metrics |-> [total_scans |-> recent_scans],
              drift_analysis |-> drift_analysis,
              change_summary |-> change_summary,
              recommendations |->
                  GenerateRecommendations(health_score, scan_frequency,
                                          drift_analysis, change_summary)]

(***************************************************************************)
(* SpecHealth: get_cluster_health_report applied to what the repositories  *)
(* handed it.  SpecStatus: determine_health_status applied to a score.     *)
(* SpecRecs: _generate_recommendations applied to its four arguments.      *)
(***************************************************************************)
MaxEvents   == 26    \* total_drift_events of a summary
MaxVolume   == 260   \* total_changes of a change summary
MaxRecent   == 2     \* scans get_recent_scans returned
MaxPeriod   == 5     \* days of the report
MaxUnstable == 4     \* entries of most_unstable_resources
MaxScore    == 100   \* health_score handed to _generate_recommendations
MaxMargin   == 10    \* scores below 0 and above MaxScore

Volumes == { v \in 0..MaxVolume : v % 10 \in {0, 1, 9} }
Periods == {0, 1, MaxPeriod}

\* most_unstable_resources: n pairs (key, count), counts descending
Unstable(n) == [i \in 1..n |-> <<"Pod:default:web-" \o ToString(i), n - i + 1>>]

\* what analyze_drift returns: an error, or an analysis with its summary
DriftAnalyses(events, lengths) ==
    {[error |-> "failed"]}
    \cup {[summary |-> [total_drift_events |-> n,
                        most_unstable_resources |-> Unstable(k)]] :
            n \in events, k \in lengths}

\* what get_change_summary returns: an error, or a summary
ChangeSummaries(volumes) ==
    {[error |-> "failed"]} \cup {[total_changes |-> v] : v \in volumes}

\* nothing stored, no connection in use: only memo holds the inputs
InitInputs(inputs) ==
    /\ docA = <<>> /\ docB = <<>> /\ hashA = "" /\ hashB = ""
    /\ dialect = "sqlite"
    /\ disk = NoDb
    /\ txs = <<>>
    /\ in_transaction = 0
    /\ now = 0
    /\ ret = [op |-> "none"]
    /\ memo \in inputs
    /\ blocks = <<>>
    /\ tasks = <<>>
    /\ tx_conn = 0
    /\ conns = <<>>
    /\ issued = <<>>

InitHealth ==
    InitInputs([recent_scans : 0..MaxRecent,
                days : Periods,
                drift_analysis : DriftAnalyses(0..MaxEvents, {0, 1}),
                change_summary : ChangeSummaries(Volumes)])

ReportsHealth ==
    /\ ret.op = "none"
    /\ ret' = [op |-> "get_cluster_health_report", raised |-> FALSE,
               value |-> GetClusterHealthReport(memo.recent_scans, memo.days,
                                                memo.drift_analysis,
                                                memo.change_summary)]
    /\ UNCHANGED <<taskVars, hashVars, connVars, now, memo, blocks>>

NextHealth == ReportsHealth

SpecHealth == InitHealth /\ [][NextHealth]_vars

InitStatus ==
    InitInputs([health_score : (0 - MaxMargin)..(MaxScore + MaxMargin)])

DeterminesStatus ==
    /\ ret.op = "none"
    /\ ret' = [op |-> "determine_health_status", raised |-> FALSE,
               value |-> DetermineHealthStatus(memo.health_score)]
    /\ UNCHANGED <<taskVars, hashVars, connVars, now, memo, blocks>>

NextStatus == DeterminesStatus

SpecStatus == InitStatus /\ [][NextStatus]_vars

InitRecs ==
    InitInputs([health_score : { c \in 0..MaxScore : c % 20 \in {0, 19} },
                scan_frequency : [scans : 1..MaxRecent, days : Periods],
                drift_analysis :
                    DriftAnalyses({ n \in 0..MaxEvents : n % 10 \in {0, 1} },
                                  0..MaxUnstable),
                change_summary :
                    ChangeSummaries({ v \in Volumes : v % 50 \in {0, 1} })])

GeneratesRecommendations ==
    /\ ret.op = "none"
    /\ ret' = [op |-> "_generate_recommendations", raised |-> FALSE,
               value |-> GenerateRecommendations(memo.health_score,
                                                 memo.scan_frequency,
                                                 memo.drift_analysis,
                                                 memo.change_summary)]
    /\ UNCHANGED <<taskVars, hashVars, connVars, now, memo, blocks>>

NextRecs == GeneratesRecommendations

SpecRecs == InitRecs /\ [][NextRecs]_vars

(***************************************************************************)
(* SpecBatch: store_scan on batches in which the scanner built resources   *)
(* from documents without metadata.name or without metadata (scanner.py    *)
(* 88-101: metadata=item.get("metadata", {}), kind defaults to the kind of *)
(* the resource type, so every K8sResource has a kind).                    *)
(***************************************************************************)
\* a pod whose document has no metadata.name
Unnamed ==
    [Resource("Pod", "default", "a", "nginx", "1") EXCEPT
        !.metadata = << <<"namespace", Str("default")>> >>]

\* a pod whose document has no metadata
Bare == [Resource("Pod", "default", "a", "nginx", "1") EXCEPT !.metadata = <<>>]

BatchDocs == <<ResourcePool[1], Unnamed, ResourcePool[4], Bare>>

BatchInputs ==
    { LET F[i \in 0..Len(BatchDocs)] ==
              IF i = 0 THEN <<>>
              ELSE IF i \in S THEN Append(F[i - 1], BatchDocs[i]) ELSE F[i - 1]
      IN  F[Len(BatchDocs)] : S \in SUBSET (1..Len(BatchDocs)) }

StoresBatch ==
    \E resources \in BatchInputs :
        /\ disk.seq.scan_records < MaxScans
        /\ LET r == StoreScan(Conn, resources, now, 0)
           IN  /\ SetConn(r.c)
               /\ ret' = [op |-> "store_scan", resources |-> resources,
                          raised |-> r.raised, value |-> r.value]
        /\ UNCHANGED <<taskVars, hashVars, now, memo, blocks>>

NextBatch == StoresBatch

SpecBatch == InitDb /\ [][NextBatch]_vars

(***************************************************************************)
(* SpecRecent: scans are stored while the clock (in seconds, the           *)
(* resolution of CURRENT_TIMESTAMP) advances or stands still, and listed   *)
(* by get_recent_scans and get_scans_in_range.  The stored header of this  *)
(* model carries no cluster_context: the range is asked with context None. *)
(***************************************************************************)
RecentInputs == { ListOf({1}) }

StoresRecent == StoreScanCall(RecentInputs, MaxHistory, FALSE) /\ UNCHANGED memo

\* get_recent_scans(limit); after: the id store_scan returned just before
GetsRecentScans ==
    \E limit \in 1..MaxHistory : \E scans \in GetRecent(Conn, limit) :
        /\ ret.op \in {"none", "store_scan"}
        /\ ret' = [op |-> "get_recent_scans", limit |-> limit,
                   after |-> IF ret.op = "store_scan" THEN ret.value ELSE NoId,
                   raised |-> FALSE, value |-> scans]
        /\ UNCHANGED <<taskVars, hashVars, connVars, now, memo, blocks>>

\* get_scans_in_range(start_date, end_date)
GetsScansInRange ==
    \E start \in 0..MaxClock : \E end \in start..MaxClock :
    \E scans \in GetInRange(Conn, start, end) :
        /\ ret.op \in {"none", "store_scan"}
        /\ ret' = [op |-> "get_scans_in_range", start |-> start, end |-> end,
                   raised |-> FALSE, value |-> scans]
        /\ UNCHANGED <<taskVars, hashVars, connVars, now, memo, blocks>>

NextRecent == StoresRecent \/ Passes \/ GetsRecentScans \/ GetsScansInRange

SpecRecent == InitDb /\ [][NextRecent]_vars

(***************************************************************************)
(* SpecUnstable: scans of two pods that both change, and their drift       *)
(* analysis with its most unstable resources.                              *)
(***************************************************************************)
UnstableInputs ==
    { <<ResourcePool[1], ResourcePool[4]>>,
      <<ResourcePool[3], Resource("Pod", "default", "b", "apache", "1")>> }

StoresUnstable ==
    StoreScanCall(UnstableInputs, MaxHistory, FALSE) /\ UNCHANGED memo

NextUnstable == StoresUnstable \/ GetsDriftAnalysis

SpecUnstable == Init /\ [][NextUnstable]_vars

(***************************************************************************)
(* SpecSwap: two scans are stored and then compared, by detect_changes and *)
(* by compare_scans, in both directions and with themselves.  A call keeps *)
(* the call of the same kind made just before it in ret.earlier.           *)
(***************************************************************************)
MaxPair == 2   \* scans stored
MaxSwap == 4   \* change ids issued

\* pod a; pod a edited, with the namespace object a beside it
SwapInputs == { ListOf({1}), ListOf({3, 5}), ListOf({6}) }

StoresSwap == StoreScanCall(SwapInputs, MaxPair, FALSE) /\ UNCHANGED memo

\* detect_changes(new, old) on two stored scans
DetectsChangesOfPair ==
    \E new \in Ids(disk.scan_records) : \E old \in Ids(disk.scan_records) :
    \E order \in UpdateOrders(Conn, new, old) :
        LET r == DetectChanges(Conn, new, old, order)
        IN  /\ r.c.disk.seq.resource_changes <= MaxSwap
            /\ SetConn(r.c)
            /\ ret' = [op |-> "detect_changes", new |-> new, old |-> old,
                       raised |-> r.raised, value |-> r.value,
                       earlier |-> IF ret.op = "detect_changes"
                                   THEN [new |-> ret.new, old |-> ret.old,
                                         raised |-> ret.raised,
                                         value |-> ret.value]
                                   ELSE <<>>]
            /\ UNCHANGED <<taskVars, hashVars, now, memo, blocks>>

\* compare_scans(scan_id_1, scan_id_2) on two stored scans
ComparesScansOfPair ==
    \E scan_id_1 \in Ids(disk.scan_records) :
    \E scan_id_2 \in Ids(disk.scan_records) :
        LET r == CompareScans(Conn, scan_id_1, scan_id_2)
        IN  /\ ret' = [op |-> "compare_scans", scan_id_1 |-> scan_id_1,
                       scan_id_2 |-> scan_id_2,
                       raised |-> r.raised, value |-> r.value,
                       earlier |-> IF ret.op = "compare_scans"
                                   THEN [scan_id_1 |-> ret.scan_id_1,
                                         scan_id_2 |-> ret.scan_id_2,
                                         raised |-> ret.raised,
                                         value |-> ret.value]
                                   ELSE <<>>]
            /\ UNCHANGED <<taskVars, hashVars, connVars, now, memo, blocks>>

NextSwap == StoresSwap \/ DetectsChangesOfPair \/ ComparesScansOfPair

SpecSwap == Init /\ [][NextSwap]_vars

(***************************************************************************)
(* The diff of two stored scans as the specification words it: resources   *)
(* are told apart by the tuple (api_version, kind, namespace, name), read   *)
(* from the rows the database holds.                                       *)
(***************************************************************************)
TupleKey(row) == <<row.api_version, row.kind, row.namespace, row.name>>

RowsIn(scan_id) ==
    SelectSeq(disk.resource_records, LAMBDA row : row.scan_id = scan_id)

KeysIn(scan_id) ==
    { TupleKey(RowsIn(scan_id)[i]) : i \in 1..Len(RowsIn(scan_id)) }

HashesIn(scan_id, k) ==
    { RowsIn(scan_id)[i].resource_hash :
        i \in { j \in 1..Len(RowsIn(scan_id)) : TupleKey(RowsIn(scan_id)[j]) = k } }

CreatedKeys(new, old) == KeysIn(new) \ KeysIn(old)
DeletedKeys(new, old) == KeysIn(old) \ KeysIn(new)
UpdatedTupleKeys(new, old) ==
    { k \in KeysIn(new) \cap KeysIn(old) : HashesIn(new, k) # HashesIn(old, k) }
UnchangedKeys(new, old) ==
    { k \in KeysIn(new) \cap KeysIn(old) : HashesIn(new, k) = HashesIn(old, k) }

\* how many of the changes say change_type about the resource with key k
Reports(changes, k, change_type) ==
    Cardinality({ i \in 1..Len(changes) :
        /\ changes[i].kind = k[2]
        /\ changes[i].namespace = k[3]
        /\ changes[i].name = k[4]
        /\ changes[i].change_type = change_type })

\* the last call was detect_changes and compared two scans that are stored
ComparedStored ==
    /\ ret.op = "detect_changes"
    /\ ret.baseline # NoId
    /\ Stored(disk, ret.new)
    /\ Stored(disk, ret.baseline)

\* the change records the last call added to the table
Appended == SubSeq(disk.resource_changes, ret.before + 1,
                   Len(disk.resource_changes))

\* C1: detect_changes on two stored scans reports every key found only in
\* the new scan once as created, every key found only in the old scan once as
\* deleted, every key found in both with different hashes once as updated,
\* and reports nothing else, so nothing about a key whose hashes agree.
C1_PartitionByTupleKey ==
    ComparedStored =>
        /\ ~ret.raised
        /\ \A k \in CreatedKeys(ret.new, ret.baseline) :
               Reports(ret.value, k, "created") = 1
        /\ \A k \in DeletedKeys(ret.new, ret.baseline) :
               Reports(ret.value, k, "deleted") = 1
        /\ \A k \in UpdatedTupleKeys(ret.new, ret.baseline) :
               Reports(ret.value, k, "updated") = 1
        /\ \A k \in UnchangedKeys(ret.new, ret.baseline) :
               \A t \in {"created", "deleted", "updated"} :
                   Reports(ret.value, k, t) = 0
        /\ Len(ret.value) =
               Cardinality(CreatedKeys(ret.new, ret.baseline))
             + Cardinality(DeletedKeys(ret.new, ret.baseline))
             + Cardinality(UpdatedTupleKeys(ret.new, ret.baseline))

\* C2: whenever no store_scan is running, every scan header is followed by
\* exactly total_resources resource rows, and no rows lack their header.
C2_HeaderHasItsRows ==
    txs = <<>> =>
        /\ \A i \in 1..Len(disk.scan_records) :
               Len(RowsIn(disk.scan_records[i].id)) =
                   disk.scan_records[i].total_resources
        /\ \A i \in 1..Len(disk.resource_records) :
               Stored(disk, disk.resource_records[i].scan_id)

\* C4: a call of detect_changes on two stored scans makes the change table
\* longer by |created| + |updated| + |deleted|, one record for each such key
\* and none for an unchanged key, and returns the records it wrote.
C4_TableGrowsByDiff ==
    ComparedStored =>
        /\ Appended = ret.value
        /\ Len(Appended) =
               Cardinality(CreatedKeys(ret.new, ret.baseline))
             + Cardinality(UpdatedTupleKeys(ret.new, ret.baseline))
             + Cardinality(DeletedKeys(ret.new, ret.baseline))
        /\ \A k \in CreatedKeys(ret.new, ret.baseline) :
               Reports(Appended, k, "created") = 1
        /\ \A k \in UpdatedTupleKeys(ret.new, ret.baseline) :
               Reports(Appended, k, "updated") = 1
        /\ \A k \in DeletedKeys(ret.new, ret.baseline) :
               Reports(Appended, k, "deleted") = 1
        /\ \A k \in UnchangedKeys(ret.new, ret.baseline) :
               \A t \in {"created", "deleted", "updated"} :
                   Reports(Appended, k, t) = 0

\* the documents a stored scan holds
DocumentsIn(scan_id) ==
    { RowsIn(scan_id)[i].resource_data : i \in 1..Len(RowsIn(scan_id)) }

\* the last call compared two different scans, each stored in full, that
\* hold the same documents
ComparedTwins ==
    /\ ComparedStored
    /\ ret.new # ret.baseline
    /\ DocumentsIn(ret.new) = DocumentsIn(ret.baseline)
    /\ \A id \in {ret.new, ret.baseline} :
         \E i \in 1..Len(disk.scan_records) :
            /\ disk.scan_records[i].id = id
            /\ disk.scan_records[i].total_resources = Len(RowsIn(id))

\* C6: when the same set of resources was stored as two scans, comparing
\* the two returns no change and writes no change record.
C6_TwinsShowNoChange ==
    ComparedTwins =>
        /\ ~ret.raised
        /\ ret.value = <<>>
        /\ Len(disk.resource_changes) = ret.before

C6_Witness ==
    /\ ComparedTwins
    /\ Len(RowsIn(ret.new)) = MaxRes
    /\ ret.value = <<>>
    /\ \E i \in 1..Len(RowsIn(ret.new)) : RowsIn(ret.new)[i].namespace = NULL

\* C7: detect_changes fails, and writes no change record, when the new scan
\* or the old scan it was given is not stored.
C7_MissingScanRaises ==
    ( /\ ret.op = "detect_changes"
      /\ \/ ~Stored(disk, ret.new)
         \/ ret.old # NoId /\ ~Stored(disk, ret.old) )
    => /\ ret.raised
       /\ Len(disk.resource_changes) = ret.before

\* C8: every change record joins an older scan to a newer one.
C8_NewAfterOld ==
    \A i \in 1..Len(disk.resource_changes) :
        disk.resource_changes[i].new_scan_id >
            disk.resource_changes[i].old_scan_id


\* the stored scans older than the one given
OlderStored(scan_id) == { id \in Ids(disk.scan_records) : id < scan_id }

\* C5: detect_changes(new) compares against the stored scan with the
\* greatest id below new, whatever was stored and cleaned up before; when no
\* such scan is stored it returns the empty list, raises nothing and writes
\* no change record.
C5_BaselineIsNextOlder ==
    (ret.op = "detect_changes" /\ ret.old = NoId) =>
        IF OlderStored(ret.new) = {}
        THEN /\ ~ret.raised
             /\ ret.value = <<>>
             /\ Len(disk.resource_changes) = ret.before
        ELSE LET older == Max(OlderStored(ret.new))
             IN  /\ ret.baseline = older
                 /\ \A i \in 1..Len(ret.value) :
                        /\ ret.value[i].old_scan_id = older
                        /\ ret.value[i].new_scan_id = ret.new
                 /\ ~ret.raised =>
                        /\ \A k \in CreatedKeys(ret.new, older) :
                               Reports(ret.value, k, "created") = 1
                        /\ \A k \in DeletedKeys(ret.new, older) :
                               Reports(ret.value, k, "deleted") = 1
                        /\ \A k \in UpdatedTupleKeys(ret.new, older) :
                               Reports(ret.value, k, "updated") = 1
                        /\ Len(ret.value) =
                               Cardinality(CreatedKeys(ret.new, older))
                             + Cardinality(DeletedKeys(ret.new, older))
                             + Cardinality(UpdatedTupleKeys(ret.new, older))

C5_Witness ==
    /\ ret.op = "detect_changes" /\ ret.old = NoId
    /\ Cardinality(OlderStored(ret.new)) = 2
    /\ ret.value # <<>>

C5_WitnessNoOlder ==
    /\ ret.op = "detect_changes" /\ ret.old = NoId
    /\ Stored(disk, ret.new)
    /\ ret.new > 1
    /\ OlderStored(ret.new) = {}

\* C9: without cleanup, a later call of detect_changes on a pair of stored
\* scans returns the same set of (kind, namespace, name, change_type) as the
\* first call did, whatever was stored or compared in between.
C9_SamePairSameDiff ==
    ( /\ memo # <<>>
      /\ ret.op = "detect_changes"
      /\ ret.new = memo.new
      /\ ret.old = memo.old )
    => /\ ~ret.raised
       /\ Logical(ret.value) = memo.diff

C9_Witness ==
    /\ memo # <<>>
    /\ ret.op = "detect_changes"
    /\ ret.new = memo.new
    /\ ret.old = memo.old
    /\ Len(disk.scan_records) > memo.scans
    /\ ret.before > memo.before
    /\ memo.diff # {}
    /\ Logical(ret.value) = memo.diff

\* the rows a read returns that carry one of the stamps
Stamped(rows, stamps) == SelectSeq(rows, LAMBDA row : row.timestamp \in stamps)
Unstamped(rows, stamps) == SelectSeq(rows, LAMBDA row : row.timestamp \notin stamps)

\* bulk_insert: after a failure a read returns the rows it returned before
\* and the error reaches the caller; after a success the call returns
\* len(records) and a read returns every record besides
BulkInsertAllOrNothing ==
    ret.op = "bulk_insert" =>
        LET stamps == { ret.records[i].timestamp : i \in 1..Len(ret.records) }
            mine   == Stamped(Visible, stamps)
        IN  /\ Unstamped(Visible, stamps) = ret.before
            /\ IF ret.raised
               THEN mine = <<>>
               ELSE /\ ret.value = Len(ret.records)
                    /\ Len(mine) = Len(ret.records)
                    /\ \A i \in 1..Len(mine) :
                         /\ mine[i].total_resources = ret.records[i].total_resources
                         /\ mine[i].timestamp = ret.records[i].timestamp

\* transaction(): after the block was left by an exception a read returns no
\* row written inside it
RaisingBlockLeavesNothing ==
    (ret.op = "transaction" /\ ret.raised) =>
        Stamped(Visible, ret.wrote) = <<>>

\* C10: bulk_insert is all-or-nothing, and so are the writes made inside a
\* transaction() block that an exception leaves: none of them is visible
\* afterwards.
C10_AllOrNothing ==
    /\ BulkInsertAllOrNothing
    /\ RaisingBlockLeavesNothing

\* the scans cleanup_old_scans had to delete: those older than its cutoff
Expired == { ret.was.scan_records[i].id :
               i \in { j \in 1..Len(ret.was.scan_records) :
                         ret.was.scan_records[j].timestamp < ret.cutoff } }

\* C11: after cleanup_old_scans the scans older than the cutoff are gone
\* with their resource rows and with every change record that names one of
\* them; the other scans and their rows are as they were; the call returns
\* the number of scans deleted.
C11_CleanupCascades ==
    ret.op = "cleanup_old_scans" =>
        /\ ~ret.raised
        /\ ret.value = Cardinality(Expired)
        /\ disk.scan_records =
               SelectSeq(ret.was.scan_records, LAMBDA s : s.id \notin Expired)
        /\ disk.resource_records =
               SelectSeq(ret.was.resource_records,
                         LAMBDA r : r.scan_id \notin Expired)
        /\ \A i \in 1..Len(disk.resource_changes) :
               /\ disk.resource_changes[i].old_scan_id \notin Expired
               /\ disk.resource_changes[i].new_scan_id \notin Expired

\* C12: writing resource rows that name a scan which is not stored fails
\* and stores none of them, so every resource row a read returns names a scan
\* a read returns.
C12_RowsNeedTheirScan ==
    /\ (ret.op = "bulk_insert_rows" /\ ~ret.stored) =>
           /\ ret.raised
           /\ Fetch(Conn, "resource_records") = ret.before
    /\ \A i \in 1..Len(Fetch(Conn, "resource_records")) :
           Fetch(Conn, "resource_records")[i].scan_id \in Ids(Visible)

\* the committed rows of a table that carry the mark of one ingestion
CommittedOf(table, field, by) ==
    SelectSeq(disk[table], LAMBDA row : row[field] = by)

\* insert_returning_id has returned the id to the ingestion
HasReturned(by) ==
    ~(tasks[by[1]].runs = by[2] /\ tasks[by[1]].pc = "header_sent")

\* a header written outside any block is committed once its id is returned,
\* and stays
HeaderCommittedOnReturn ==
    \A i \in { k \in 1..Len(issued) : HasReturned(issued[k].by) } :
        \E j \in 1..Len(disk.scan_records) :
            /\ disk.scan_records[j].id = issued[i].id
            /\ disk.scan_records[j].cluster_context = issued[i].by

\* the rows of a bulk insert are committed all together or not at all
NoPartialBulkCommitted ==
    \A t \in Tasks : \A run \in 1..MaxRuns :
        Len(CommittedOf("resource_records", "resource_data", <<t, run>>))
            \in {0, MaxRows}

\* C13: tasks ingesting at the same time on one connection object do not
\* interfere: what a task writes outside a block is committed when its call
\* returns and survives the rollback of another task's block, and no commit
\* publishes a part of another task's bulk insert.
C13_TasksDoNotInterfere ==
    Cleanups = 0 =>
        /\ HeaderCommittedOnReturn
        /\ NoPartialBulkCommitted

\* C14: the scan ids given out grow strictly in the order of the inserts,
\* whatever the tasks ingesting and cleaning up do in between: no id is given
\* twice, none is given again after cleanup freed it.
C14_IdsStrictlyIncrease ==
    \A i, j \in 1..Len(issued) : i < j => issued[i].id < issued[j].id

\* every row of the table is still there, as it was, and in its place
Kept(before, after) ==
    /\ Len(before) <= Len(after)
    /\ SubSeq(after, 1, Len(before)) = before

\* C15: stored scan headers and resource rows are never modified after
\* ingestion: a step that removes or changes one is a step of
\* cleanup_old_scans, so store_scan of a later scan, detect_changes and
\* analyze_drift keep every one of them; and store_scan writes no change
\* record.
C15_StoredRowsAreKept ==
    [][ /\ ( \/ ~Kept(disk.scan_records, disk'.scan_records)
             \/ ~Kept(disk.resource_records, disk'.resource_records) )
             => ret'.op = "cleanup_old_scans"
        /\ ret'.op = "store_scan" => disk'.resource_changes = disk.resource_changes
      ]_vars

\* analyze_drift has reconciled the newest scan of its window with the
\* oldest and recorded a change, with pod a stored in two scans
C15_Witness ==
    /\ ret.op = "analyze_drift"
    /\ "total_changes" \in DOMAIN ret.value
    /\ ret.value.total_changes > 0
    /\ Len(disk.resource_changes) > Len(ret.before)
    /\ Len(disk.scan_records) >= 2
    /\ Len(disk.resource_records) >= 2

\* the keys of the two scans that differ in nothing but a null namespace in
\* one scan and the namespace '' in the other
NullAgainstEmpty(new, old) ==
    { p \in KeysIn(new) \X KeysIn(old) :
        /\ p[1][1] = p[2][1] /\ p[1][2] = p[2][2] /\ p[1][4] = p[2][4]
        /\ {p[1][3], p[2][3]} = {NULL, ""} }

\* C16: detect_changes takes two rows for the same resource exactly if their
\* tuples (api_version, kind, namespace, name) are equal: a key of both scans
\* is never reported created or deleted, a key of one scan only is never
\* reported updated, and a resource with no namespace in one scan and the
\* namespace '' in the other is reported once as created and once as deleted.
C16_NullIsNotEmpty ==
    ComparedStored =>
        /\ \A k \in KeysIn(ret.new) \cap KeysIn(ret.baseline) :
               /\ Reports(ret.value, k, "created") = 0
               /\ Reports(ret.value, k, "deleted") = 0
        /\ \A k \in CreatedKeys(ret.new, ret.baseline)
                     \cup DeletedKeys(ret.new, ret.baseline) :
               Reports(ret.value, k, "updated") = 0
        /\ \A p \in NullAgainstEmpty(ret.new, ret.baseline) :
               /\ Reports(ret.value, p[1], "created") = 1
               /\ Reports(ret.value, p[2], "deleted") = 1

\* the result says that the window held too few scans, and how many
Insufficient(value, available) ==
    /\ "error" \in DOMAIN value
    /\ "available_scans" \in DOMAIN value
    /\ value.available_scans = available

\* C17: a drift analysis over a window of fewer than 2 scans, by analyze_drift
\* or by get_drift_analysis, raises nothing, returns a result flagged as
\* insufficient data that carries the number of scans of the window, and
\* writes no change record.
C17_FewScansAreInsufficient ==
    (ret.op \in {"analyze_drift", "get_drift_analysis"} /\ Len(ret.window) < 2) =>
        /\ ~ret.raised
        /\ Insufficient(ret.value, Len(ret.window))
        /\ disk.resource_changes = ret.before

\* when the stored scan was taken
TakenAt(scan_id) ==
    disk.scan_records[CHOOSE i \in 1..Len(disk.scan_records) :
                          disk.scan_records[i].id = scan_id].timestamp

\* the last call was get_drift_analysis and returned a drift report
DriftReported == ret.op = "get_drift_analysis" /\ "drift_points" \in DOMAIN ret.value

\* C18: get_drift_analysis called without a baseline takes a scan of the
\* window that no other scan of the window precedes in time, and lists the
\* drift points of the other scans from the oldest scan to the newest.
C18_OldestIsBaseline ==
    (DriftReported /\ ret.baseline_scan_id = NoId) =>
        /\ \A i \in 1..Len(ret.window) :
               TakenAt(ret.value.baseline_scan.id) <= ret.window[i].timestamp
        /\ \A i, j \in 1..Len(ret.value.drift_points) :
               i < j => TakenAt(ret.value.drift_points[i].scan_id)
                            <= TakenAt(ret.value.drift_points[j].scan_id)

\* the key of a resource as the drift report writes it
KeyText(k) ==
    k[1] \o "/" \o k[2] \o "/" \o (IF k[3] = NULL THEN "None" ELSE k[3])
         \o "/" \o k[4]

\* the keys that differ between a scan and the baseline
Drifted(scan_id, baseline) ==
    CreatedKeys(scan_id, baseline) \cup DeletedKeys(scan_id, baseline)
        \cup UpdatedTupleKeys(scan_id, baseline)

Observations ==
    { disk.resource_records[i] : i \in
        { j \in 1..Len(disk.resource_records) :
            /\ disk.resource_records[j].kind = "Pod"
            /\ disk.resource_records[j].name = "a"
            /\ disk.resource_records[j].namespace = "default"
            /\ Stored(disk, disk.resource_records[j].scan_id) } }

\* no two observations were taken at the same time
TakenApart ==
    \A o, p \in Observations : TakenAt(o.scan_id) = TakenAt(p.scan_id) => o = p

\* the observations taken before the given time
Earlier(time) == { o \in Observations : TakenAt(o.scan_id) < time }

\* the observation that chronologically precedes the given time
Preceding(time) ==
    CHOOSE o \in Earlier(time) :
        \A p \in Earlier(time) : TakenAt(p.scan_id) <= TakenAt(o.scan_id)

\* C20: in the timeline of a resource whose observations were taken at
\* different times, the entry of the first observation carries no changed
\* flag, and the entry of every later observation carries the flag changed,
\* which says whether its hash differs from the hash of the observation
\* before it, whatever the limit of the call.
C20_ChangedAgainstPreceding ==
    (ret.op = "get_resource_timeline" /\ TakenApart) =>
        \A i \in 1..Len(ret.value) :
            IF Earlier(ret.value[i].timestamp) = {}
            THEN "changed" \notin DOMAIN ret.value[i]
            ELSE /\ "changed" \in DOMAIN ret.value[i]
                 /\ ret.value[i].changed =
                        (ret.value[i].resource_hash
                            # Preceding(ret.value[i].timestamp).resource_hash)

\* C21: the timeline of a resource holds one entry for each of its stored
\* observations and no other, and the entries run from the oldest scan to
\* the newest.
C21_EveryObservationOldestFirst ==
    ret.op = "get_resource_timeline" =>
        /\ Len(ret.value) = Cardinality(Observations)
        /\ { ret.value[i].scan_id : i \in 1..Len(ret.value) }
               = { o.scan_id : o \in Observations }
        /\ \A i, j \in 1..Len(ret.value) :
               i < j => ret.value[i].timestamp <= ret.value[j].timestamp

\* the last call was _calculate_stability_score
Scored == ret.op = "_calculate_stability_score"

\* the score lies in [0, 100], is 100 for no change and for no resource, is 0
\* once the changes are as many as the resources, and one more change never
\* raises it
ScoreIsSound ==
    LET n == Len(memo.changes)
        total == memo.total_resources
    IN  /\ 0 <= ret.value /\ ret.value <= 10000
        /\ (n = 0 \/ total = 0) => ret.value = 10000
        /\ (n >= total /\ total > 0) => ret.value = 0
        /\ CalculateStabilityScore(Changes(n + 1), total) <= ret.value

\* 100 - min(100, 100 * n / total) in hundredths, times total
ExactTimesTotal(n, total) ==
    10000 * total - (IF n >= total THEN 10000 * total ELSE 10000 * n)

\* C22 as claimed: the score is 100 - min(100, 100 * |changes| / total) for
\* total > 0 and 100 for total = 0, and it is sound.
C22_ExactScore ==
    Scored =>
        /\ memo.total_resources > 0 =>
               ret.value * memo.total_resources
                   = ExactTimesTotal(Len(memo.changes), memo.total_resources)
        /\ ScoreIsSound

\* C22 amended: the score is 100 - min(100, 100 * |changes| / total) rounded
\* to two decimals, so within half a hundredth of it, for total > 0 and 100
\* for total = 0, and it is sound.
C22_RoundedScore ==
    Scored =>
        /\ memo.total_resources > 0 =>
               LET off == ret.value * memo.total_resources
                          - ExactTimesTotal(Len(memo.changes), memo.total_resources)
               IN  /\ 2 * off <= memo.total_resources
                   /\ 0 - 2 * off <= memo.total_resources
        /\ ScoreIsSound

\* one change among three resources has scored 66.67
C22_Witness ==
    /\ Scored
    /\ Len(memo.changes) = 1 /\ memo.total_resources = 3
    /\ ret.value = 6667

\* what C23 states to be the score for the report's inputs
ClaimedPenalty(events, volume, below) ==
    (IF events > 10 THEN Least(30, 2 * (events - 10)) ELSE 0)
    + (IF volume > 50 THEN Least(20, (volume - 50) \div 10) ELSE 0)
    + (IF below THEN 20 ELSE 0)

ClaimedScore(events, volume, below) ==
    IF ClaimedPenalty(events, volume, below) > 100 THEN 0
    ELSE 100 - ClaimedPenalty(events, volume, below)

HealthReported ==
    /\ ret.op = "get_cluster_health_report"
    /\ "health_score" \in DOMAIN ret.value
    /\ HasSummary(memo.drift_analysis)
    /\ "total_changes" \in DOMAIN memo.change_summary

\* C23: the health score of a report is max(0, 100 - D - V - F) with
\* D = min(30, 2 * (driftEvents - 10)) above 10 drift events, V = min(20,
\* (changeVolume - 50) div 10) above 50 changes and F = 20 below half a scan
\* a day; it lies in 0..100, and 25 events, 120 changes, 0.2 scans a day
\* give 43.
C23_HealthScoreFormula ==
    HealthReported =>
        /\ ret.value.health_score \in 0..100
        /\ ret.value.health_score =
               ClaimedScore(memo.drift_analysis.summary.total_drift_events,
                            memo.change_summary.total_changes,
                            IF memo.days > 0
                            THEN 2 * memo.recent_scans < memo.days ELSE TRUE)

\* C24: determine_health_status returns one status for every integer score:
\* healthy exactly from 80 on, warning exactly from 60 to 79, critical
\* exactly below 60.
C24_OneStatusForEachScore ==
    ret.op = "determine_health_status" =>
        /\ ret.value \in {"healthy", "warning", "critical"}
        /\ ret.value = "healthy" <=> memo.health_score >= 80
        /\ ret.value = "warning" <=>
               (60 <= memo.health_score /\ memo.health_score < 80)
        /\ ret.value = "critical" <=> memo.health_score < 60

C24_Witness ==
    /\ ret.op = "determine_health_status"
    /\ memo.health_score = 60
    /\ ret.value = "warning"

Recommends(message) == \E i \in 1..Len(ret.value) : ret.value[i] = message

Recommended == ret.op = "_generate_recommendations"

EventsGiven ==
    IF "summary" \in DOMAIN memo.drift_analysis
    THEN memo.drift_analysis.summary.total_drift_events ELSE 0

UnstableGiven ==
    IF "summary" \in DOMAIN memo.drift_analysis
    THEN Len(memo.drift_analysis.summary.most_unstable_resources) ELSE 0

VolumeGiven ==
    IF "total_changes" \in DOMAIN memo.change_summary
    THEN memo.change_summary.total_changes ELSE 0

FrequencyLow ==
    memo.scan_frequency.days > 0
        => 2 * memo.scan_frequency.scans < memo.scan_frequency.days

\* the message that names the first resources of the most unstable ones
FocusOn(n) ==
    "Focus on stabilizing frequently changing resources: "
    \o (IF n = 1 THEN "Pod:default:web-1"
        ELSE IF n = 2 THEN "Pod:default:web-1, Pod:default:web-2"
        ELSE "Pod:default:web-1, Pod:default:web-2, Pod:default:web-3")

NoRuleFired ==
    /\ memo.health_score >= 80
    /\ ~FrequencyLow
    /\ EventsGiven <= 20
    /\ UnstableGiven = 0
    /\ VolumeGiven <= 100

\* C25: _generate_recommendations returns a non-empty list that holds the
\* message of every rule whose condition holds (score below 60, otherwise
\* below 80; scan frequency below 0.5; more than 20 drift events; unstable
\* resources, naming at most three; more than 100 changes), and the
\* 'appears healthy' message exactly when no rule fired, then alone.
C25_EveryRuleContributes ==
    Recommended =>
        /\ Len(ret.value) >= 1
        /\ memo.health_score < 60 =>
               Recommends("Cluster health is critical - investigate recent changes and drift")
        /\ (60 <= memo.health_score /\ memo.health_score < 80) =>
               Recommends("Cluster health needs attention - review configuration drift")
        /\ FrequencyLow =>
               Recommends("Increase scanning frequency for better monitoring coverage")
        /\ EventsGiven > 20 =>
               Recommends("High configuration drift detected - review change management processes")
        /\ UnstableGiven > 0 => Recommends(FocusOn(UnstableGiven))
        /\ VolumeGiven > 100 =>
               Recommends("High change volume - consider implementing change freezes or approval processes")
        /\ Recommends("Cluster appears healthy - continue regular monitoring")
               <=> NoRuleFired
        /\ NoRuleFired =>
               ret.value = <<"Cluster appears healthy - continue regular monitoring">>

\* every rule fired at once, four unstable resources of which three are named
C25_Witness ==
    /\ Recommended
    /\ memo.health_score < 60 /\ FrequencyLow /\ EventsGiven > 20
    /\ UnstableGiven = 4 /\ VolumeGiven > 100
    /\ Len(ret.value) = 5
    /\ Recommends(FocusOn(3))

\* the documents of a batch that have a kind and a metadata.name
ValidDocuments(resources) ==
    SelectSeq(resources, LAMBDA r : r.kind # "" /\ Has(r.metadata, "name"))

BatchStored == ret.op = "store_scan" /\ "resources" \in DOMAIN ret

\* C26: store_scan skips the documents of a batch that lack kind or
\* metadata.name, stores every valid document and does not fail; no
\* resource row with an empty or missing name is ever stored.
C26_InvalidDocumentsAreSkipped ==
    /\ \A i \in 1..Len(disk.resource_records) :
           disk.resource_records[i].name \notin {"", NULL}
    /\ BatchStored =>
           /\ ~ret.raised
           /\ LET rows == SelectSeq(disk.resource_records,
                                    LAMBDA r : r.scan_id = ret.value)
                  valid == ValidDocuments(ret.resources)
              IN  /\ Len(rows) = Len(valid)
                  /\ \A i \in 1..Len(valid) :
                         /\ rows[i].name = NameOf(valid[i])
                         /\ rows[i].resource_hash =
                                CalculateResourceHash(ModelDump(valid[i]))

\* later captures first: the scans are stored in the order of their ids
CaptureOrder(scans) ==
    /\ \A i \in 1..(Len(scans) - 1) : scans[i].timestamp >= scans[i + 1].timestamp
    /\ \A i \in 1..(Len(scans) - 1) : scans[i].id > scans[i + 1].id

\* C27: get_recent_scans(limit) returns at most limit scans and
\* get_scans_in_range(start, end) exactly the stored scans with
\* start <= timestamp <= end, both later captures first, so that right after
\* store_scan returned s the first scan of get_recent_scans is s, also when
\* s was stored in the same clock second as the scan before it.
C27_ListingsAreNewestFirst ==
    /\ ret.op = "get_recent_scans" =>
           /\ Len(ret.value) <= ret.limit
           /\ CaptureOrder(ret.value)
           /\ ret.after # NoId => ret.value[1].id = ret.after
    /\ ret.op = "get_scans_in_range" =>
           /\ { ret.value[i].id : i \in 1..Len(ret.value) } =
                  { disk.scan_records[j].id : j \in
                      { k \in 1..Len(disk.scan_records) :
                          /\ ret.start <= disk.scan_records[k].timestamp
                          /\ disk.scan_records[k].timestamp <= ret.end } }
           /\ CaptureOrder(ret.value)

\* the place of a key of SpecUnstable in lexical order
LexicalRank(key) == IF key = "v1/Pod/default/a" THEN 1 ELSE 2

UnstableListed ==
    /\ ret.op = "get_drift_analysis"
    /\ "summary" \in DOMAIN ret.value

\* the drift points of the reported analysis that list key as modified
TimesModified(key) ==
    Cardinality({ i \in 1..Len(ret.value.drift_points) :
                    \E change \in ret.value.drift_points[i].changes.modified :
                        change.key = key })

\* C28: most_unstable_resources lists at most 10 keys, each with the number
\* of drift points that show it as modified, largest count first, no
\* omitted key having a larger count than a listed one, and keys of equal
\* count in lexical key order.
C28_MostUnstableIsDeterministic ==
    UnstableListed =>
        LET listed == ret.value.summary.most_unstable_resources
            keys == { k \in { "v1/Pod/default/a", "v1/Pod/default/b" } :
                        TimesModified(k) > 0 }
        IN  /\ Len(listed) <= 10
            /\ \A i \in 1..Len(listed) :
                   listed[i][2] = TimesModified(listed[i][1])
            /\ \A i \in 1..(Len(listed) - 1) :
                   \/ listed[i][2] > listed[i + 1][2]
                   \/ /\ listed[i][2] = listed[i + 1][2]
                      /\ LexicalRank(listed[i][1]) < LexicalRank(listed[i + 1][1])
            /\ \A k \in keys :
                   \/ \E i \in 1..Len(listed) : listed[i][1] = k
                   \/ \A i \in 1..Len(listed) : listed[i][2] >= TimesModified(k)

\* the task whose block acquired connection k wrote the row
WrittenByOwner(k, w) ==
    \E t \in Tasks : /\ tasks[t].conn = k
                     /\ w.row.resource_data = <<t, tasks[t].runs>>

\* the block of task t has sent a row and has neither committed nor rolled back
BlockOpen(t) == tasks[t].pc \in {"row_ok", "row_failed"}

\* C29: on PostgreSQL every statement issued inside a transaction() block
\* runs on the connection the block acquired, whatever blocks other tasks
\* enter or leave on the same object meanwhile: never on another block's
\* connection, never on the pool outside any transaction.
C29_StatementsStayOnTheirConnection ==
    dialect = "postgresql" =>
        /\ \A k \in 1..Len(conns) : \A i \in 1..Len(conns[k].writes) :
               (/\ conns[k].writes[i].op = "insert"
                /\ conns[k].writes[i].table = "resource_records")
                   => WrittenByOwner(k, conns[k].writes[i])
        /\ \A t \in Tasks :
               BlockOpen(t) =>
                  \A i \in 1..Len(disk.resource_records) :
                     disk.resource_records[i].resource_data # <<t, tasks[t].runs>>

\* the key of a reported change, a null namespace and '' being one namespace
ChangeKey(x) ==
    <<x.kind, IF x.namespace \in {NULL, ""} THEN "" ELSE x.namespace, x.name>>

ReportedAs(changes, change_type) ==
    { ChangeKey(changes[i]) :
        i \in { j \in 1..Len(changes) : changes[j].change_type = change_type } }

ResourceKeys(resources) == { MakeResourceKey(r) : r \in resources }

ModifiedKeys(modified) == { change.key : change \in modified }

\* the call in ret and the one before it are the same diff, arguments swapped
DetectedBothWays ==
    /\ ret.op = "detect_changes" /\ "earlier" \in DOMAIN ret
    /\ ret.earlier # <<>>
    /\ ret.earlier.new = ret.old /\ ret.earlier.old = ret.new
    /\ ~ret.raised /\ ~ret.earlier.raised

ComparedBothWays ==
    /\ ret.op = "compare_scans" /\ ret.earlier # <<>>
    /\ ret.earlier.scan_id_1 = ret.scan_id_2
    /\ ret.earlier.scan_id_2 = ret.scan_id_1
    /\ ~ret.raised /\ ~ret.earlier.raised

RECURSIVE SameValue(_, _)
SameValue(a, b) ==
    /\ a.tag = b.tag
    /\ IF a.tag = "dict"
       THEN /\ Keys(a.d) = Keys(b.d)
            /\ \A k \in Keys(a.d) : SameValue(Get(a.d, k), Get(b.d, k))
       ELSE a.s = b.s

SameCleaned(a, b) ==
    \A k \in (Keys(a) \cup Keys(b)) \ {"status"} :
        /\ Has(a, k) /\ Has(b, k)
        /\ IF k = "metadata"
           THEN LET ma == Get(a, k).d
                    mb == Get(b, k).d
                IN  \A m \in (Keys(ma) \cup Keys(mb))
                               \ {"resourceVersion", "generation",
                                  "managedFields", "creationTimestamp"} :
                        Has(ma, m) /\ Has(mb, m) /\ SameValue(Get(ma, m), Get(mb, m))
           ELSE SameValue(Get(a, k), Get(b, k))

\* C3: two documents get the same hash exactly when they are equal once
\* metadata.resourceVersion, metadata.generation, metadata.managedFields,
\* metadata.creationTimestamp and the top-level status are removed, whatever
\* the order of their keys.
C3_HashIffCleanedEqual ==
    hashA # "" => ((hashA = hashB) <=> SameCleaned(docA, docB))

\* C3 witness: two documents that differ in status and in the order of their
\* top-level keys, hashed to the same digest.
C3_Witness ==
    /\ hashA # "" /\ hashA = hashB
    /\ Has(docA, "status") /\ Has(docB, "status")
    /\ Get(docA, "status") # Get(docB, "status")
    /\ Has(docA, "metadata") /\ docA[1][1] # docB[1][1]

====
